---- MODULE Spec2Model ----
(***************************************************************************)
(* Reddit Mastermind: the weekly calendar scheduler                        *)
(* (src/lib/utils/calendarGenerator.ts, src/lib/utils/topicTools.ts).      *)
(*                                                                         *)
(* A JavaScript string is a sequence of symbols.  The symbols are the      *)
(* blank " ", the comma ",", "&", "/", "-", and whole words, which no      *)
(* regular expression of the modelled code looks inside.  Render turns a   *)
(* symbol sequence into the string it spells.                              *)
(***************************************************************************)
EXTENDS Integers, Sequences, FiniteSets, TLC

\* ---------------------------------------------------------------- bounds
MaxPosts == 15
MaxThemes == 2
MaxSubreddits == 3
MaxPersonas == 2
MaxLow == 1
LibrarySize == 3
MaxRequests == 2
MaxSlots == 3
MaxItems == 2
MaxNameLen == 3
MaxComments == 2

\* ------------------------------------------------------ option values
None == <<>>
Some(x) == <<x>>

\* ------------------------------------------------------------- strings
\* The operations on strings are functions on Str, so that an argument is a
\* value by the time the function looks at it.
Str == Seq(STRING)

Render[s \in Str] == IF s = <<>> THEN "" ELSE Head(s) \o Render[Tail(s)]

IsSpace(c) == c = " "

\* number of leading whitespace symbols of s
LeadingSpaces[s \in Str] ==
  IF s # <<>> /\ IsSpace(Head(s)) THEN 1 + LeadingSpaces[Tail(s)] ELSE 0

Drop(s, k) == SubSeq(s, k + 1, Len(s))

TrimEnd[s \in Str] ==
  IF s # <<>> /\ IsSpace(s[Len(s)]) THEN TrimEnd[SubSeq(s, 1, Len(s) - 1)] ELSE s

\* String.prototype.trim
Trim[s \in Str] == TrimEnd[Drop(s, LeadingSpaces[s])]

\* words joined by single blanks
Words[ws \in Str] ==
  IF Len(ws) <= 1 THEN ws ELSE <<Head(ws), " ">> \o Words[Tail(ws)]

StartsWith(s, p) == Len(s) >= Len(p) /\ SubSeq(s, 1, Len(p)) = p

\* .replace(/\s*,\s*/g, ', ')
NormalizeCommaSpacing[s \in Str] ==
  IF s = <<>> THEN <<>>
  ELSE LET k == LeadingSpaces[s]
       IN IF k < Len(s) /\ s[k + 1] = ","
          THEN LET rest == Drop(s, k + 1)
               IN <<",", " ">> \o NormalizeCommaSpacing[Drop(rest, LeadingSpaces[rest])]
          ELSE <<Head(s)>> \o NormalizeCommaSpacing[Tail(s)]

\* .replace(/, /g, ' & ')
CommaToAmpersand[s \in Str] ==
  IF s = <<>> THEN <<>>
  ELSE IF StartsWith(s, <<",", " ">>)
       THEN <<" ", "&", " ">> \o CommaToAmpersand[Drop(s, 2)]
       ELSE <<Head(s)>> \o CommaToAmpersand[Tail(s)]

\* .replace(/\s+/g, ' ')
CollapseSpaces[s \in Str] ==
  IF s = <<>> THEN <<>>
  ELSE IF IsSpace(Head(s))
       THEN <<" ">> \o CollapseSpaces[Drop(s, LeadingSpaces[s])]
       ELSE <<Head(s)>> \o CollapseSpaces[Tail(s)]

\* .replace(/<phrase> (.+)/gi, `<replacement> $1`): the leftmost place where
\* the phrase and a blank are followed by at least one symbol; (.+) takes the
\* rest of the string, so there is at most one replacement.
ReplacePhrase[s \in Str, phrase \in Str, replacement \in Str] ==
  LET pat == phrase \o <<" ">>
  IN IF Len(s) <= Len(pat) THEN s
     ELSE IF StartsWith(s, pat)
          THEN replacement \o <<" ">> \o Drop(s, Len(pat))
          ELSE <<Head(s)>> \o ReplacePhrase[Tail(s), phrase, replacement]

HowToGetBetterAt == Words[<<"how", "to", "get", "better", "at">>]
ImprovingMy == Words[<<"improving", "my">>]
StrugglesPeopleFaceWith == Words[<<"struggles", "people", "face", "with">>]
CommonChallengesIn == Words[<<"common", "challenges", "in">>]

cleanTopic[topic \in Str] ==
  LET cleaned == Trim[CollapseSpaces[CommaToAmpersand[NormalizeCommaSpacing[topic]]]]
      better == ReplacePhrase[cleaned, HowToGetBetterAt, ImprovingMy]
  IN ReplacePhrase[better, StrugglesPeopleFaceWith, CommonChallengesIn]

expandTheme[theme \in Str] ==
  << Words[<<"best", "practices", "for">>] \o <<" ">> \o theme,
     StrugglesPeopleFaceWith \o <<" ">> \o theme,
     Words[<<"tips", "on", "improving", "at">>] \o <<" ">> \o theme,
     HowToGetBetterAt \o <<" ">> \o theme,
     Words[<<"common", "mistakes", "in">>] \o <<" ">> \o theme,
     Words[<<"what", "people", "overlook", "about">>] \o <<" ">> \o theme,
     Words[<<"advice", "for", "newcomers", "on">>] \o <<" ">> \o theme >>

\* the topics of one theme: its seven framings, cleaned, and the cleaned
\* theme; the topics are kept as the strings they spell
TopicsOfTheme[cleanTheme \in Str] ==
  [k \in 1..7 |-> Render[cleanTopic[expandTheme[cleanTheme][k]]]] \o <<Render[cleanTheme]>>

expandThemesToTopics[themes \in Seq(Str)] ==
  IF themes = <<>> THEN <<>>
  ELSE TopicsOfTheme[cleanTopic[Head(themes)]] \o expandThemesToTopics[Tail(themes)]

\* `r/${sub.replace(/^r\//, '').trim()}`
normalizeSubreddit[sub \in Str] ==
  LET stripped == IF StartsWith(sub, <<"r", "/">>) THEN Drop(sub, 2) ELSE sub
  IN Render[<<"r", "/">> \o Trim[stripped]]

\* --------------------------------------------------------------- dates
\* A Date is the local calendar day it holds: [y, m, d] with m = getMonth().
IsLeapYear(y) == (y % 4 = 0 /\ y % 100 # 0) \/ y % 400 = 0

DaysInMonth(y, m) ==
  IF m = 1 THEN (IF IsLeapYear(y) THEN 29 ELSE 28)
  ELSE IF m \in {3, 5, 8, 10} THEN 30 ELSE 31

\* new Date(year, monthIndex, day) and setDate(day): a day of the month outside
\* the month carries into the neighbouring months
RECURSIVE MakeDate(_, _, _)
MakeDate(y, m, d) ==
  IF m > 11 THEN MakeDate(y + 1, m - 12, d)
  ELSE IF m < 0 THEN MakeDate(y - 1, m + 12, d)
  ELSE IF d < 1
       THEN IF m = 0 THEN MakeDate(y - 1, 11, d + 31)
            ELSE MakeDate(y, m - 1, d + DaysInMonth(y, m - 1))
       ELSE IF d > DaysInMonth(y, m)
            THEN MakeDate(y, m + 1, d - DaysInMonth(y, m))
            ELSE [y |-> y, m |-> m, d |-> d]

\* days of the year that precede month m
RECURSIVE DaysBeforeMonth(_, _)
DaysBeforeMonth(y, m) ==
  IF m = 0 THEN 0 ELSE DaysBeforeMonth(y, m - 1) + DaysInMonth(y, m - 1)

\* the day count of a Date (1 = Monday 0001-01-01)
DayNumber(date) ==
  LET y1 == date.y - 1
  IN 365 * y1 + (y1 \div 4) - (y1 \div 100) + (y1 \div 400)
     + DaysBeforeMonth(date.y, date.m) + date.d

\* Date.prototype.getDay: 0 = Sunday, 1 = Monday, ...
getDay(date) == DayNumber(date) % 7

\* the Invalid Date, whose fields are all NaN (no Date has day 0)
InvalidDate == [y |-> 0, m |-> 0, d |-> 0]

\* the date string is split at '-' and its parts read as numbers: a date
\* string is the list of these numbers.  A missing part is undefined, and the
\* Date made of it is the Invalid Date.
parseDate(dateStr) ==
  IF Len(dateStr) >= 3 THEN MakeDate(dateStr[1], dateStr[2] - 1, dateStr[3])
  ELSE InvalidDate

padStart2(n) == IF n < 10 THEN "0" \o ToString(n) ELSE ToString(n)

formatDate(date) ==
  IF date = InvalidDate THEN "NaN-NaN-NaN"
  ELSE ToString(date.y) \o "-" \o padStart2(date.m + 1) \o "-" \o padStart2(date.d)

\* mutant: one day too many
addDaysOffByOne(date, days) ==
  IF date = InvalidDate THEN InvalidDate
  ELSE MakeDate(date.y, date.m, date.d + days + 1)

addDays(date, days) ==
  IF date = InvalidDate THEN InvalidDate
  ELSE MakeDate(date.y, date.m, date.d + days)

\* mutant: a Sunday is treated like the other days
getMondayOfWeekNoSunday(today) ==
  LET day == getDay(today)
      diff == today.d - day + 1
  IN MakeDate(today.y, today.m, diff)

getMondayOfWeek(today) ==
  LET day == getDay(today)
      diff == today.d - day + (IF day = 0 THEN -6 ELSE 1)
  IN MakeDate(today.y, today.m, diff)

\* ------------------------------------------------------------- shuffle
\* shuffle draws one Math.random() value per element and sorts by it.  The
\* draws are 0 or 1, and at most `low` elements draw 0: the sort is stable, so
\* these move to the front in their order and the others keep theirs.
RECURSIVE LowSets(_, _)
LowSets(n, k) ==
  IF k = 0 THEN {{}}
  ELSE LET smaller == LowSets(n, k - 1)
       IN smaller \cup {S \cup {e} : S \in smaller, e \in 1..n}

RandomDraws(n, low) == {[e \in 1..n |-> IF e \in S THEN 0 ELSE 1] : S \in LowSets(n, low)}

\* arr.map(x => ({x, r})).sort((a, b) => a.r - b.r).map(obj => obj.x)
SortByDraw(arr, r) ==
  LET idx == [e \in 1..Len(arr) |-> e]
      order == SelectSeq(idx, LAMBDA e : r[e] = 0) \o SelectSeq(idx, LAMBDA e : r[e] = 1)
  IN [k \in 1..Len(arr) |-> arr[order[k]]]

shuffle(arr, low) == {SortByDraw(arr, r) : r \in RandomDraws(Len(arr), low)}

\* ------------------------------------------------------------ personas
\* the personas of `personas` whose name differs from the poster's
pickDifferentPersona(personas, poster) ==
  LET filtered == SelectSeq(personas, LAMBDA p : p.name # poster.name)
  IN IF Len(filtered) = 0 THEN {personas[1]}
     ELSE {filtered[k] : k \in 1..Len(filtered)}

\* ------------------------------------------------------------- inputs
\* the lists of at most n items of `alphabet`, the items in the alphabet's
\* order (the shuffles reorder them)
ListsUpTo(alphabet, n) ==
  UNION {{[j \in 1..k |-> alphabet[f[j]]] :
            f \in {g \in [1..k -> 1..Len(alphabet)] : \A a \in 1..(k - 1) : g[a] <= g[a + 1]}} :
         k \in 0..n}

ThemeRun == <<"run", " ", ",", "yoga">>
ThemeBetter == HowToGetBetterAt \o <<" ">> \o ThemeRun
Themes == <<ThemeRun, ThemeBetter>>

SubTennis == <<"tennis">>
SubPrefixed == <<"r", "/", "tennis">>
SubGolf == <<"golf">>
Subreddits == <<SubTennis, SubPrefixed, SubGolf>>

Personas == <<[name |-> "Ana", voice |-> "casual"], [name |-> "Ben", voice |-> "formal"]>>

\* weekStart overrides: month ends of a leap year and of a common year, also
\* days past the end of the month; Todays covers the seven weekdays
Years == {2023, 2024}
WeekStartOverrides == {<<y, m, d>> : y \in Years, m \in {2, 12}, d \in {24, 30}}
Todays == {MakeDate(2024, 2, d) : d \in 1..7}

\* postsPerWeek: one slot on every day, the first week with a day of two
\* slots, and the largest week
PostCounts == {7, 8, MaxPosts}

BaseInput ==
  [ personas |-> Personas,
    subreddits |-> <<SubTennis>>,
    themes |-> <<ThemeRun>>,
    postsPerWeek |-> 1,
    weekStartOverride |-> Some(<<2024, 1, 1>>) ]

\* the calls of generateWeeklyCalendar: one argument varies, the others are
\* those of BaseInput
CountInputs == {[BaseInput EXCEPT !.postsPerWeek = n] : n \in 1..MaxPosts}
ThemeInputs ==
  {[BaseInput EXCEPT !.themes = t, !.postsPerWeek = MaxPosts] :
     t \in ListsUpTo(Themes, MaxThemes)}
SubredditInputs ==
  {[BaseInput EXCEPT !.subreddits = s, !.postsPerWeek = n] :
     s \in ListsUpTo(Subreddits, MaxSubreddits), n \in PostCounts}
PersonaInputs ==
  {[BaseInput EXCEPT !.personas = ps, !.postsPerWeek = n] :
     ps \in ListsUpTo(Personas, MaxPersonas), n \in PostCounts}
DateInputs ==
  {[BaseInput EXCEPT !.weekStartOverride = w, !.postsPerWeek = n] :
     w \in {None} \cup {Some(d) : d \in WeekStartOverrides}, n \in {1, 7}}

\* --------------------------------------------------------------- state
VARIABLES
  input,                \* the arguments of the call (input and weekStartOverride)
  pc,                   \* "start", "prepare", "topic", "subreddit", "return", "done", "error"
  error,                \* the message of the Error thrown
  calendar,             \* the WeeklyCalendar returned
  allTopics, shuffledTopics, shuffledPersonas, shuffledSubreddits,
  weekStart, weekStartStr,
  posts, usedTopics, usedSubredditsPerDay, lastSubreddit,
  topicIndex, subredditIndex, personaIndex,
  dayOffset, i, postsToday, topic,
  textCalls,            \* calls of generateHybridPost and generateHybridComment
  body,                 \* the JSON body of the request POST handles
  response,             \* the response POST returns
  loaded,               \* weekStart of the calendar the page holds
  timeZone,             \* hours the client's local time is ahead of UTC
  shown,                \* the calendar the page sets after 'Generate Next Week'
  pageError,            \* the error the page sets
  weekSeedHistory,      \* the module's week history: intros and lastLengthMode
  lastIntro,            \* the module's lastIntro
  arr,                  \* the candidate list of the last call of pickWeekUnique
  selected,             \* the value that call returned
  pickError,            \* the message of the Error that call threw
  before,               \* the history that call was given, as it was at the call
  requests,             \* per request: "none", "awaiting", "building", "answered"
  slotsLeft,            \* the slots the running build has still to fill
  lengthModes,          \* the length modes of the last two posts of the running build
  commentMode,          \* the length mode of the comment of the last slot
  writers,              \* the request whose build wrote each intros entry and lastIntro
  together,             \* the pairs of requests that were in flight at the same time
  draft,                \* the text an assembler hands to the cleanup pipeline
  cleaned,              \* the pipeline's output for the draft
  recleaned,            \* the pipeline's output for its own output
  valueProp,            \* company.valueProp of the build
  postText,             \* the text generateHybridPost returned
  commentText,          \* the text generateHybridComment returned
  attempts,             \* the attempts the subreddit do/while of the last slot made
  sub,                  \* a community name as supplied
  label,                \* normalizeSubreddit(sub)
  prefixedLabel,        \* normalizeSubreddit('r/' + sub)
  clock,                \* the current date
  monday,               \* getMondayOfWeek() on that date
  lastComment,          \* the module's lastComment
  previousComment       \* the text generateHybridComment returned for the slot before

vars == <<input, pc, error, calendar, allTopics, shuffledTopics, shuffledPersonas,
          shuffledSubreddits, weekStart, weekStartStr, posts, usedTopics,
          usedSubredditsPerDay, lastSubreddit, topicIndex, subredditIndex,
          personaIndex, dayOffset, i, postsToday, topic, textCalls, body, response,
          loaded, timeZone, shown, pageError, weekSeedHistory, lastIntro, arr,
          selected, pickError, before, requests, slotsLeft, lengthModes,
          commentMode, writers, together, draft, cleaned, recleaned, valueProp, postText,
          commentText, attempts, sub, label, prefixedLabel, clock, monday,
          lastComment, previousComment>>

\* the state of the request handler
routeVars == <<body, response>>

\* the last call of pickWeekUnique
pickVars == <<arr, selected, pickError, before>>

\* the requests in flight and the build that runs
buildVars == <<requests, slotsLeft, lengthModes, commentMode, writers, together>>

\* the texts of one slot and the value proposition they must not quote
textVars == <<valueProp, postText, commentText>>

\* a draft on its way through the cleanup pipeline
cleanVars == <<draft, cleaned, recleaned, textVars>>

\* the state of the calendar page
pageVars == <<loaded, timeZone, shown, pageError>>

\* the state of the text generator's module and of the calls of its picker
genVars == <<weekSeedHistory, lastIntro, pickVars, buildVars, cleanVars>>

\* single calls of normalizeSubreddit and of getMondayOfWeek
callVars == <<sub, label, prefixedLabel, clock, monday>>

\* the comment tracker of the text generator's module, and the comment of
\* the slot before
trackVars == <<lastComment, previousComment>>

\* the state outside the scheduler and the request handler
others == <<pageVars, genVars, callVars, trackVars>>

locals == <<allTopics, shuffledTopics, shuffledPersonas, shuffledSubreddits,
            weekStart, weekStartStr, posts, usedTopics, usedSubredditsPerDay,
            lastSubreddit, topicIndex, subredditIndex, personaIndex,
            dayOffset, i, postsToday, topic, textCalls, attempts>>

\* nothing thrown, returned or answered, and the locals of the call as declared
Fresh ==
  /\ error = None
  /\ calendar = None
  /\ allTopics = <<>>
  /\ shuffledTopics = <<>>
  /\ shuffledPersonas = <<>>
  /\ shuffledSubreddits = <<>>
  /\ weekStart = None
  /\ weekStartStr = ""
  /\ posts = <<>>
  /\ usedTopics = {}
  /\ usedSubredditsPerDay = <<>>
  /\ lastSubreddit = None
  /\ topicIndex = 0
  /\ subredditIndex = 0
  /\ personaIndex = 0
  /\ dayOffset = 0
  /\ i = 0
  /\ postsToday = 0
  /\ topic = ""
  /\ textCalls = 0
  /\ attempts = 0
  /\ response = None

\* no page open
\* no single call made
\* let lastComment = ''
NoTrack ==
  /\ lastComment = <<>>
  /\ previousComment = None

NoCalls ==
  /\ NoTrack
  /\ sub = <<>>
  /\ label = None
  /\ prefixedLabel = None
  /\ clock = None
  /\ monday = None

NoPage ==
  /\ loaded = None
  /\ timeZone = 0
  /\ shown = None
  /\ pageError = None

\* the text generator's module as loaded, and no call of its picker made
NoText ==
  /\ weekSeedHistory = [intros |-> <<>>, lastLengthMode |-> None]
  /\ lastIntro = ""
  /\ arr = <<>>
  /\ selected = None
  /\ pickError = None
  /\ before = <<>>
  /\ requests = [r \in 1..MaxRequests |-> "none"]
  /\ slotsLeft = 0
  /\ lengthModes = <<>>
  /\ commentMode = None
  /\ writers = [intros |-> <<>>, lastIntro |-> None]
  /\ together = {}
  /\ draft = <<>>
  /\ cleaned = None
  /\ recleaned = None
  /\ valueProp = <<>>
  /\ postText = None
  /\ commentText = None

\* a call of generateWeeklyCalendar with the arguments inp
InitWith(inp) ==
  /\ input = inp
  /\ pc = "start"
  /\ body = None
  /\ Fresh
  /\ NoCalls
  /\ NoPage
  /\ NoText

Init ==
  \E inp \in CountInputs \cup ThemeInputs \cup SubredditInputs \cup PersonaInputs \cup DateInputs :
     InitWith(inp)

\* ------------------------------------------------------------- actions
\* mutant: Math.round in place of Math.ceil
CeilRounded(a, b) == (2 * a + b) \div (2 * b)

\* Math.ceil(a / b) for positive b
Ceil(a, b) == (a + b - 1) \div b

\* mutant: the persona check lets a single persona through
ValidationErrorOnePersona(inp) ==
  IF Len(inp.personas) < 1 THEN Some("At least 2 personas are required")
  ELSE IF Len(inp.subreddits) = 0 THEN Some("At least 1 subreddit is required")
  ELSE IF Len(inp.themes) = 0 THEN Some("At least 1 theme is required")
  ELSE None

\* the three checks in front of the scheduling
ValidationError(inp) ==
  IF Len(inp.personas) < 2 THEN Some("At least 2 personas are required")
  ELSE IF Len(inp.subreddits) = 0 THEN Some("At least 1 subreddit is required")
  ELSE IF Len(inp.themes) = 0 THEN Some("At least 1 theme is required")
  ELSE None

Validate ==
  /\ pc = "start"
  /\ error' = ValidationError(input)
  /\ pc' = IF ValidationError(input) = None THEN "prepare" ELSE "error"
  /\ UNCHANGED <<input, calendar, locals, routeVars, others>>

\* mutant: the day loop stops one day early
DayLoopSixDays(d, n) ==
  IF d < 6 /\ n < input.postsPerWeek
  THEN [pc |-> "topic", postsToday |-> Ceil(input.postsPerWeek - n, 7 - d)]
  ELSE [pc |-> "return", postsToday |-> postsToday]

\* the head of the day loop for day d with n posts made: the next position
DayLoop(d, n) ==
  IF d < 7 /\ n < input.postsPerWeek
  THEN [pc |-> "topic", postsToday |-> Ceil(input.postsPerWeek - n, 7 - d)]
  ELSE [pc |-> "return", postsToday |-> postsToday]

\* topic expansion, the three shuffles, the week start and the first day; of
\* the draws of the three shuffles together at most MaxLow are low
Prepare ==
  /\ pc = "prepare"
  /\ \E topics \in {expandThemesToTopics[input.themes]} :
     LET head == DayLoop(0, 0)
     IN /\ allTopics' = topics
        /\ \E lowTopics \in 0..MaxLow : \E lowPersonas \in 0..(MaxLow - lowTopics) :
              /\ \E st \in shuffle(topics, lowTopics) : shuffledTopics' = st
              /\ \E sp \in shuffle(input.personas, lowPersonas) : shuffledPersonas' = sp
              /\ \E ss \in shuffle(input.subreddits, MaxLow - lowTopics - lowPersonas) :
                    shuffledSubreddits' = ss
        /\ \E start \in IF input.weekStartOverride # None
                        THEN {parseDate(input.weekStartOverride[1])}
                        ELSE {getMondayOfWeek(today) : today \in Todays} :
              /\ weekStart' = Some(start)
              /\ weekStartStr' = formatDate(start)
        /\ pc' = head.pc
        /\ postsToday' = head.postsToday
        /\ usedSubredditsPerDay' = IF head.pc = "topic" THEN <<{}>> ELSE <<>>
  /\ UNCHANGED <<input, error, calendar, posts, usedTopics, lastSubreddit, topicIndex,
                 subredditIndex, personaIndex, dayOffset, i, topic, textCalls, routeVars, others,
                 attempts>>

\* `${baseTheme} - part ${Math.floor(posts.length / themes.length) + 2}`
ContinuationTopic(n) ==
  LET baseTheme == cleanTopic[input.themes[(n % Len(input.themes)) + 1]]
  IN Render[baseTheme] \o " - part " \o ToString((n \div Len(input.themes)) + 2)

\* mutant: the loop condition does not look at usedTopics, so the first
\* candidate is taken
SelectTopicNoRetry ==
  /\ pc = "topic"
  /\ IF topicIndex >= Len(shuffledTopics)
     THEN /\ topicIndex' = 0
          /\ topic' = ContinuationTopic(Len(posts))
     ELSE /\ topic' = shuffledTopics[topicIndex + 1]
          /\ topicIndex' = topicIndex + 1
  /\ pc' = "subreddit"
  /\ usedTopics' = usedTopics \cup {topic'}
  /\ UNCHANGED <<input, error, calendar, allTopics, shuffledTopics, shuffledPersonas,
                 shuffledSubreddits, weekStart, weekStartStr, posts,
                 usedSubredditsPerDay, lastSubreddit, subredditIndex, personaIndex,
                 dayOffset, i, postsToday, textCalls, routeVars, others, attempts>>

\* one iteration of the topic do/while
SelectTopic ==
  /\ pc = "topic"
  /\ IF topicIndex >= Len(shuffledTopics)
     THEN /\ topicIndex' = 0
          /\ topic' = ContinuationTopic(Len(posts))
     ELSE /\ topic' = shuffledTopics[topicIndex + 1]
          /\ topicIndex' = topicIndex + 1
  /\ IF topic' \in usedTopics /\ Cardinality(usedTopics) < Len(allTopics)
     THEN /\ pc' = "topic"
          /\ usedTopics' = usedTopics
     ELSE /\ pc' = "subreddit"
          /\ usedTopics' = usedTopics \cup {topic'}
  /\ UNCHANGED <<input, error, calendar, allTopics, shuffledTopics, shuffledPersonas,
                 shuffledSubreddits, weekStart, weekStartStr, posts,
                 usedSubredditsPerDay, lastSubreddit, subredditIndex, personaIndex,
                 dayOffset, i, postsToday, textCalls, routeVars, others, attempts>>

\* mutant: the attempt budget is compared the wrong way round, so the loop
\* never repeats
SelectSubredditNoRetry(idx, made) ==
  [rawSubreddit |-> shuffledSubreddits[(idx % Len(shuffledSubreddits)) + 1],
   subredditIndex |-> idx + 1,
   attempts |-> made + 1]

\* mutant: the rotation index is not advanced
RECURSIVE SelectSubredditStuck(_, _)
SelectSubredditStuck(idx, made) ==
  LET rawSubreddit == shuffledSubreddits[(idx % Len(shuffledSubreddits)) + 1]
      daySubreddits == usedSubredditsPerDay[dayOffset + 1]
  IN IF (rawSubreddit \in daySubreddits \/ Some(rawSubreddit) = lastSubreddit)
        /\ made + 1 < Len(shuffledSubreddits) * 3
     THEN SelectSubredditStuck(idx, made + 1)
     ELSE [rawSubreddit |-> rawSubreddit, subredditIndex |-> idx,
           attempts |-> made + 1]

\* mutant: once a slot exists every candidate is refused
RECURSIVE SelectSubredditRefusing(_, _)
SelectSubredditRefusing(idx, made) ==
  LET rawSubreddit == shuffledSubreddits[(idx % Len(shuffledSubreddits)) + 1]
      daySubreddits == usedSubredditsPerDay[dayOffset + 1]
  IN IF (rawSubreddit \in daySubreddits \/ lastSubreddit # None)
        /\ made + 1 < Len(shuffledSubreddits) * 3
     THEN SelectSubredditRefusing(idx + 1, made + 1)
     ELSE [rawSubreddit |-> rawSubreddit, subredditIndex |-> idx + 1,
           attempts |-> made + 1]

\* mutant: the rotation index advances by two
RECURSIVE SelectSubredditSkipping(_, _)
SelectSubredditSkipping(idx, made) ==
  LET rawSubreddit == shuffledSubreddits[((idx) % Len(shuffledSubreddits)) + 1]
      daySubreddits == usedSubredditsPerDay[dayOffset + 1]
  IN IF (rawSubreddit \in daySubreddits \/ Some(rawSubreddit) = lastSubreddit)
        /\ made + 1 < Len(shuffledSubreddits) * 3
     THEN SelectSubredditSkipping(idx + 2, made + 1)
     ELSE [rawSubreddit |-> rawSubreddit, subredditIndex |-> idx + 2,
           attempts |-> made + 1]

\* mutant: the rotation is read one position ahead of the index
RECURSIVE SelectSubredditFromOne(_, _)
SelectSubredditFromOne(idx, made) ==
  LET rawSubreddit == shuffledSubreddits[((idx + 1) % Len(shuffledSubreddits)) + 1]
      daySubreddits == usedSubredditsPerDay[dayOffset + 1]
  IN IF (rawSubreddit \in daySubreddits \/ Some(rawSubreddit) = lastSubreddit)
        /\ made + 1 < Len(shuffledSubreddits) * 3
     THEN SelectSubredditFromOne(idx + 1, made + 1)
     ELSE [rawSubreddit |-> rawSubreddit, subredditIndex |-> idx + 1,
           attempts |-> made + 1]

\* mutant: the budget is one attempt longer
RECURSIVE SelectSubredditLongBudget(_, _)
SelectSubredditLongBudget(idx, made) ==
  LET rawSubreddit == shuffledSubreddits[((idx) % Len(shuffledSubreddits)) + 1]
      daySubreddits == usedSubredditsPerDay[dayOffset + 1]
  IN IF (rawSubreddit \in daySubreddits \/ Some(rawSubreddit) = lastSubreddit)
        /\ made + 1 < Len(shuffledSubreddits) * 3 + 1
     THEN SelectSubredditLongBudget(idx + 1, made + 1)
     ELSE [rawSubreddit |-> rawSubreddit, subredditIndex |-> idx + 1,
           attempts |-> made + 1]

\* the subreddit do/while from index idx after `made` attempts: the
\* subreddit it leaves with and the index it leaves at
RECURSIVE SelectSubreddit(_, _)
SelectSubreddit(idx, made) ==
  LET rawSubreddit == shuffledSubreddits[(idx % Len(shuffledSubreddits)) + 1]
      daySubreddits == usedSubredditsPerDay[dayOffset + 1]
  IN IF (rawSubreddit \in daySubreddits \/ Some(rawSubreddit) = lastSubreddit)
        /\ made + 1 < Len(shuffledSubreddits) * 3
     THEN SelectSubreddit(idx + 1, made + 1)
     ELSE [rawSubreddit |-> rawSubreddit, subredditIndex |-> idx + 1,
           attempts |-> made + 1]

\* the rest of the slot: subreddit, poster, commenter, the two texts, the
\* post, and the step to the next slot or the next day
SchedulePost ==
  /\ pc = "subreddit"
  /\ LET sel == SelectSubreddit(subredditIndex, 0)
         poster == shuffledPersonas[(personaIndex % Len(shuffledPersonas)) + 1]
         dateStr == formatDate(addDays(weekStart[1], dayOffset))
     IN /\ subredditIndex' = sel.subredditIndex
        /\ attempts' = sel.attempts
        /\ lastSubreddit' = Some(sel.rawSubreddit)
        /\ personaIndex' = personaIndex + 1
        /\ \E commenter \in pickDifferentPersona(shuffledPersonas, poster) :
             posts' = Append(posts,
                        [ date |-> dateStr,
                          subreddit |-> normalizeSubreddit[sel.rawSubreddit],
                          poster |-> poster.name,
                          commenter |-> commenter.name,
                          topic |-> topic ])
        /\ textCalls' = textCalls + 2
        /\ IF i + 1 < postsToday /\ Len(posts') < input.postsPerWeek
           THEN /\ i' = i + 1
                /\ pc' = "topic"
                /\ UNCHANGED <<dayOffset, postsToday>>
                /\ usedSubredditsPerDay' =
                     [usedSubredditsPerDay EXCEPT ![dayOffset + 1] = @ \cup {sel.rawSubreddit}]
           ELSE LET head == DayLoop(dayOffset + 1, Len(posts'))
                    marked == [usedSubredditsPerDay EXCEPT
                                 ![dayOffset + 1] = @ \cup {sel.rawSubreddit}]
                IN /\ i' = 0
                   /\ dayOffset' = dayOffset + 1
                   /\ pc' = head.pc
                   /\ postsToday' = head.postsToday
                   /\ usedSubredditsPerDay' =
                        IF head.pc = "topic" THEN Append(marked, {}) ELSE marked
  /\ UNCHANGED <<input, error, calendar, allTopics, shuffledTopics, shuffledPersonas,
                 shuffledSubreddits, weekStart, weekStartStr, usedTopics, topicIndex,
                 topic, routeVars, others>>

Return ==
  /\ pc = "return"
  /\ calendar' = Some([weekStart |-> weekStartStr, posts |-> posts])
  /\ pc' = "done"
  /\ UNCHANGED <<input, error, locals, routeVars, others>>

Next == Validate \/ Prepare \/ SelectTopic \/ SchedulePost \/ Return

Spec == Init /\ [][Next]_vars

\* the calls whose themes vary, run to the end: the call is one synchronous
\* call chain, so a step that can be taken is taken
ThemeInit == \E inp \in CountInputs \cup ThemeInputs : InitWith(inp)

FairSpec == ThemeInit /\ [][Next]_vars /\ WF_vars(Next)

\* ------------------------------------------------- the request handler
\* A JSON value that may be missing is None or Some(value); a JSON string is a
\* symbol sequence.
IsBlank(s) == Trim[s] = <<>>

\* typeof every field is 'string' and no field trims to ''
validateCompanyInfo(company) ==
  /\ company # None
  /\ ~IsBlank(company[1].name)
  /\ ~IsBlank(company[1].valueProp)
  /\ ~IsBlank(company[1].idealCustomer)
  /\ ~IsBlank(company[1].tone)

validatePersona(persona) ==
  /\ ~IsBlank(persona.name)
  /\ ~IsBlank(persona.background)
  /\ ~IsBlank(persona.voice)
  /\ \A k \in 1..Len(persona.painPoints) : ~IsBlank(persona.painPoints[k])

\* the error of the first check that fails, None when all pass
validateGenerationInput(b) ==
  IF b = None THEN Some("Invalid request body")
  ELSE LET in == b[1]
           badPersonas == IF in.personas = None THEN {}
                          ELSE {k \in 1..Len(in.personas[1]) : ~validatePersona(in.personas[1][k])}
           firstBad == CHOOSE k \in badPersonas : \A j \in badPersonas : k <= j
       IN IF ~validateCompanyInfo(in.company)
          THEN Some("Missing or invalid company fields. Required: name, valueProp, idealCustomer, tone")
          ELSE IF in.personas = None \/ in.personas = Some(<<>>)
          THEN Some("Missing or invalid personas. Must be a non-empty array")
          ELSE IF badPersonas # {}
          THEN Some("Invalid persona at index " \o ToString(firstBad - 1)
                    \o ". Required: name, background, voice, painPoints (array of strings)")
          ELSE IF \/ in.subreddits = None
                  \/ in.subreddits = Some(<<>>)
                  \/ \E k \in 1..Len(in.subreddits[1]) : IsBlank(in.subreddits[1][k])
          THEN Some("Missing or invalid subreddits. Must be a non-empty array of strings")
          ELSE IF \/ in.themes = None
                  \/ in.themes = Some(<<>>)
                  \/ \E k \in 1..Len(in.themes[1]) : IsBlank(in.themes[1][k])
          THEN Some("Missing or invalid themes. Must be a non-empty array of strings")
          ELSE IF in.postsPerWeek = None \/ in.postsPerWeek[1] <= 0
          THEN Some("Missing or invalid postsPerWeek. Must be a positive integer")
          ELSE IF Len(in.personas[1]) < 2
          THEN Some("At least 2 personas are required for calendar generation")
          ELSE None

\* the request bodies
Company == [name |-> <<"Acme">>, valueProp |-> <<"smart", " ", "plans">>,
            idealCustomer |-> <<"runners">>, tone |-> <<"friendly">>]
BodyAna == [name |-> <<"Ana">>, background |-> <<"runner">>, voice |-> <<"casual">>,
            painPoints |-> <<<<"no", " ", "time">>>>]
BodyBen == [name |-> <<"Ben">>, background |-> <<"coach">>, voice |-> <<"formal">>,
            painPoints |-> <<>>]
Blank == <<" ">>

Bodies ==
  {None} \cup
  {Some([company |-> c, personas |-> ps, subreddits |-> ss, themes |-> ts,
         postsPerWeek |-> n, weekStart |-> w]) :
     c \in {None, Some([Company EXCEPT !.name = Blank]), Some(Company)},
     ps \in {None, Some(<<>>), Some(<<BodyAna>>), Some(<<BodyAna, [BodyBen EXCEPT !.name = Blank]>>),
             Some(<<BodyAna, BodyBen>>)},
     ss \in {None, Some(<<>>), Some(<<SubTennis, Blank>>), Some(<<SubTennis, SubGolf>>)},
     ts \in {None, Some(<<>>), Some(<<Blank>>), Some(<<ThemeRun>>)},
     n \in {None, Some(-1), Some(0), Some(1), Some(8)},
     w \in {None, Some(<<2024, 1, 8>>), Some(<<2024, 1>>)}}

\* no call of generateWeeklyCalendar made
NoCall ==
  [ personas |-> <<>>, subreddits |-> <<>>, themes |-> <<>>, postsPerWeek |-> 0,
    weekStartOverride |-> None ]


\* the handler up to the call of generateWeeklyCalendar
POST ==
  /\ pc = "request"
  /\ LET validation == validateGenerationInput(body)
     IN IF validation # None
        THEN /\ response' = Some([status |-> 400, error |-> validation[1]])
             /\ pc' = "responded"
             /\ input' = input
        ELSE /\ input' =
                  [ personas |-> [k \in 1..Len(body[1].personas[1]) |->
                                   [name |-> Render[body[1].personas[1][k].name],
                                    voice |-> Render[body[1].personas[1][k].voice]]],
                    subreddits |-> body[1].subreddits[1],
                    themes |-> body[1].themes[1],
                    postsPerWeek |-> body[1].postsPerWeek[1],
                    weekStartOverride |-> body[1].weekStart ]
             /\ pc' = "start"
             /\ response' = response
  /\ UNCHANGED <<body, error, calendar, locals, others>>

\* the handler from the return of generateWeeklyCalendar, or from its throw
Respond ==
  /\ pc \in {"done", "error"}
  /\ response' = IF pc = "done" THEN Some([status |-> 200, calendar |-> calendar[1]])
                 ELSE Some([status |-> 400, error |-> error[1]])
  /\ pc' = "responded"
  /\ UNCHANGED <<input, body, error, calendar, locals, others>>

RouteInit ==
  /\ \E b \in Bodies : body = b
  /\ input = NoCall
  /\ pc = "request"
  /\ Fresh
  /\ NoCalls
  /\ NoPage
  /\ NoText

RouteNext == POST \/ Validate \/ Prepare \/ SelectTopic \/ SchedulePost \/ Return \/ Respond

RouteSpec == RouteInit /\ [][RouteNext]_vars

\* ---------------------------------------------------- the calendar page
\* new Date(dateStr) reads a date-only string as midnight UTC of that day;
\* getDate, setDate, getFullYear and getMonth work on the client's local day,
\* which is the day before when local time is behind UTC
addDaysToDate(dateStr, days, tz) ==
  LET utc == MakeDate(dateStr[1], dateStr[2] - 1, dateStr[3])
      local == MakeDate(utc.y, utc.m, utc.d + (IF tz < 0 THEN -1 ELSE 0))
      moved == MakeDate(local.y, local.m, local.d + days)
  IN <<moved.y, moved.m + 1, moved.d>>

\* the weekStart of the stored calendar, the client's offset from UTC in
\* hours, and the input the page stored
LoadedWeekStarts == {<<2024, 1, 1>>, <<2024, 2, 26>>, <<2023, 12, 25>>}
TimeZones == {-5, 0, 9}
StoredInput ==
  [ company |-> Some(Company), personas |-> Some(<<BodyAna, BodyBen>>),
    subreddits |-> Some(<<SubTennis, SubGolf>>), themes |-> Some(<<ThemeRun>>),
    postsPerWeek |-> Some(1) ]

PageInit ==
  /\ \E d \in LoadedWeekStarts : loaded = Some(d)
  /\ timeZone \in TimeZones
  /\ shown = None
  /\ pageError = None
  /\ body = None
  /\ input = NoCall
  /\ pc = "page"
  /\ Fresh
  /\ NoCalls
  /\ NoText

\* handleGenerateNextWeek up to the fetch
GenerateNextWeek ==
  /\ pc = "page"
  /\ loaded # None
  /\ LET nextWeekStart == addDaysToDate(loaded[1], 7, timeZone)
     IN body' = Some([f \in DOMAIN StoredInput \cup {"weekStart"} |->
                        IF f = "weekStart" THEN Some(nextWeekStart) ELSE StoredInput[f]])
  /\ pc' = "request"
  /\ UNCHANGED <<input, response, error, calendar, locals, pageVars, genVars, callVars, trackVars>>

\* handleGenerateNextWeek from the response
SetCalendar ==
  /\ pc = "responded"
  /\ loaded # None
  /\ IF response[1].status = 200
     THEN shown' = Some(response[1].calendar) /\ pageError' = pageError
     ELSE pageError' = Some(response[1].error) /\ shown' = shown
  /\ pc' = "shown"
  /\ UNCHANGED <<input, body, response, error, calendar, locals, loaded, timeZone, genVars, callVars, trackVars>>

PageNext ==
  \/ GenerateNextWeek
  \/ POST \/ Validate \/ Prepare \/ SelectTopic \/ SchedulePost \/ Return \/ Respond
  \/ SetCalendar

PageSpec == PageInit /\ [][PageNext]_vars

\* ------------------------------------------------- the week-level picker
\* a seed library: the entries are distinct texts
Seeds == [k \in 1..LibrarySize |-> "seed" \o ToString(k)]

\* history.shift() after the push that makes the history longer than this
HistoryCap == 10

\* the values pick(arr) can return: arr[Math.floor(Math.random() * arr.length)]
pick(a) == {a[k] : k \in 1..Len(a)}

\* history.slice(-2)
LastTwo(history) ==
  SubSeq(history, IF Len(history) > 2 THEN Len(history) - 1 ELSE 1, Len(history))

\* history.push(value) and the shift that follows it
Push(history, value) ==
  LET pushed == Append(history, value)
  IN IF Len(pushed) > HistoryCap THEN Tail(pushed) ELSE pushed

\* mutant: only the newest history entry is avoided
pickWeekUniqueLastOne(a, history) ==
  IF Len(a) = 1 THEN {[selected |-> a[1], history |-> history]}
  ELSE LET lastTwo == SubSeq(history, IF Len(history) > 1 THEN Len(history) ELSE 1, Len(history))
           filtered == SelectSeq(a, LAMBDA item : \A k \in 1..Len(lastTwo) : lastTwo[k] # item)
       IN IF filtered = <<>>
          THEN {[selected |-> v, history |-> history] : v \in pick(a)}
          ELSE {[selected |-> v, history |-> Push(history, v)] : v \in pick(filtered)}

\* the outcomes of pickWeekUnique(arr, history) for a non-empty arr: the value
\* returned and the history array after the call
pickWeekUnique(a, history) ==
  IF Len(a) = 1 THEN {[selected |-> a[1], history |-> history]}
  ELSE LET lastTwo == LastTwo(history)
           filtered == SelectSeq(a, LAMBDA item : \A k \in 1..Len(lastTwo) : lastTwo[k] # item)
       IN IF filtered = <<>>
          THEN {[selected |-> v, history |-> history] : v \in pick(a)}
          ELSE {[selected |-> v, history |-> Push(history, v)] : v \in pick(filtered)}

\* the object resetWeekHistory assigns to weekSeedHistory
resetWeekHistory == [intros |-> <<>>, lastLengthMode |-> None]

\* the candidate lists the picker is called with
CandidateLists == {SubSeq(Seeds, 1, k) : k \in 0..LibrarySize}

\* one call of pickWeekUnique on a category's history
PickWeekUnique ==
  /\ pc = "pick"
  /\ \E a \in CandidateLists :
       /\ arr' = a
       /\ before' = weekSeedHistory.intros
       /\ IF Len(a) = 0
          THEN /\ pickError' = Some("Cannot pick from empty array")
               /\ selected' = None
               /\ UNCHANGED weekSeedHistory
          ELSE \E o \in pickWeekUnique(a, weekSeedHistory.intros) :
                 /\ pickError' = None
                 /\ selected' = Some(o.selected)
                 /\ weekSeedHistory' = [weekSeedHistory EXCEPT !.intros = o.history]
  /\ UNCHANGED <<input, pc, error, calendar, locals, routeVars, pageVars, lastIntro, buildVars,
                 cleanVars, callVars, trackVars>>

\* one call of resetWeekHistory between the picks: no pick made since
ResetWeekHistory ==
  /\ pc = "pick"
  /\ weekSeedHistory' = resetWeekHistory
  /\ arr' = <<>>
  /\ selected' = None
  /\ pickError' = None
  /\ before' = <<>>
  /\ UNCHANGED <<input, pc, error, calendar, locals, routeVars, pageVars, lastIntro, buildVars,
                 cleanVars, callVars, trackVars>>

PickInit ==
  /\ input = NoCall
  /\ pc = "pick"
  /\ body = None
  /\ Fresh
  /\ NoCalls
  /\ NoPage
  /\ NoText

PickNext == PickWeekUnique \/ ResetWeekHistory

PickSpec == PickInit /\ [][PickNext]_vars

\* ------------------------------------------------- builds and their texts
\* Node runs one handler at a time: a POST handler gives up the thread only at
\* its await of request.json(), and from there validation, the build and the
\* response run without a break.  Of a build this part keeps the calls that
\* touch the module's state: resetWeekHistory, and for every slot
\* generateHybridPost and generateHybridComment.  Of the week history it keeps
\* the intros and lastLengthMode; the other categories are picked like the
\* intros, without the lastIntro loop.

\* the keys pickWeighted can return: every key has a positive weight, and the
\* fallback after the loop is the last key
pickWeighted(weights) == {k \in DOMAIN weights : weights[k] > 0}

\* mutant: the mode of the previous post is not looked at
pickLengthModeForgetful(isComplex, lastLengthMode) ==
  IF isComplex
  THEN pickWeighted([medium |-> 55, long |-> 35])
  ELSE pickWeighted([short |-> 10, medium |-> 55, long |-> 35])

\* the modes pickLengthMode can return, isComplex being isTopicComplex(topic)
pickLengthMode(isComplex, lastLengthMode) ==
  IF isComplex
  THEN pickWeighted([medium |-> 55, long |-> 35])
  ELSE IF lastLengthMode = Some("short")
  THEN pickWeighted([medium |-> 60, long |-> 40])
  ELSE pickWeighted([short |-> 10, medium |-> 55, long |-> 35])

\* the length modes generateHybridComment can choose for a postLength, None
\* standing for the humor reply that returns before a mode is chosen
commentLengthModes(postLength) ==
  IF postLength = Some("long")
  THEN {Some(m) : m \in pickWeighted([short |-> 60, medium |-> 40])}
  ELSE IF postLength = Some("medium")
  THEN {Some(m) : m \in pickWeighted([short |-> 50, medium |-> 50])}
  ELSE IF postLength = Some("short")
  THEN {None, Some("short")}
  ELSE {Some(m) : m \in pickWeighted([short |-> 40, medium |-> 50, long |-> 10])}

\* the postLength generateWeeklyCalendar passes to generateHybridComment for a
\* post of the given length mode: the call has three arguments
PostLengthPassed(postLength) == None

\* the request whose build runs
Running == CHOOSE r \in 1..MaxRequests : requests[r] = "building"

\* a request arrives: its handler runs up to the await of request.json()
Receive(r) ==
  /\ pc = "loop"
  /\ requests[r] = "none"
  /\ requests' = [requests EXCEPT ![r] = "awaiting"]
  /\ together' = together \cup
                   UNION {{<<q, r>>, <<r, q>>} : q \in {x \in 1..MaxRequests : requests[x] = "awaiting"}}
  /\ UNCHANGED <<input, pc, error, calendar, locals, routeVars, pageVars, weekSeedHistory,
                 lastIntro, pickVars, slotsLeft, lengthModes, commentMode, writers, cleanVars,
                 callVars, trackVars>>

\* the body fails validation: the handler answers 400 and builds nothing
Reject(r) ==
  /\ pc = "loop"
  /\ requests[r] = "awaiting"
  /\ requests' = [requests EXCEPT ![r] = "answered"]
  /\ UNCHANGED <<input, pc, error, calendar, locals, routeVars, pageVars, weekSeedHistory,
                 lastIntro, pickVars, slotsLeft, lengthModes, commentMode, writers, together,
                 cleanVars, callVars, trackVars>>

\* the body passes validation: generateWeeklyCalendar starts with
\* resetWeekHistory and comes to the first slot
StartBuild(r) ==
  /\ pc = "loop"
  /\ requests[r] = "awaiting"
  /\ requests' = [requests EXCEPT ![r] = "building"]
  /\ weekSeedHistory' = resetWeekHistory
  /\ writers' = [writers EXCEPT !.intros = <<>>]
  /\ \E n \in 1..MaxSlots : slotsLeft' = n
  /\ lengthModes' = <<>>
  /\ commentMode' = None
  /\ pc' = "post"
  /\ UNCHANGED <<input, error, calendar, locals, routeVars, pageVars, lastIntro, pickVars,
                 together, cleanVars, callVars, trackVars>>

\* generateHybridPost up to its intro loop
PickLengthMode ==
  /\ pc = "post"
  /\ \E isComplex \in BOOLEAN :
       \E mode \in pickLengthMode(isComplex, weekSeedHistory.lastLengthMode) :
          /\ weekSeedHistory' = [weekSeedHistory EXCEPT !.lastLengthMode = Some(mode)]
          /\ lengthModes' = LET all == Append(lengthModes, mode)
                            IN IF Len(all) > 2 THEN Tail(all) ELSE all
  /\ commentMode' = None
  /\ pc' = "intro"
  /\ UNCHANGED <<input, error, calendar, locals, routeVars, pageVars, lastIntro, pickVars,
                 requests, slotsLeft, writers, together, cleanVars, callVars, trackVars>>

\* one round of the intro loop of generateHybridPost, and after the last
\* round the rest of the function
PickIntro ==
  /\ pc = "intro"
  /\ \E o \in pickWeekUnique(Seeds, weekSeedHistory.intros) :
       /\ weekSeedHistory' = [weekSeedHistory EXCEPT !.intros = o.history]
       /\ IF o.selected = lastIntro /\ Len(Seeds) > 1
          THEN /\ pc' = "intro"
               /\ lastIntro' = lastIntro
               /\ writers' = [writers EXCEPT
                                !.intros = IF o.history # weekSeedHistory.intros
                                           THEN Push(@, Running) ELSE @]
          ELSE /\ pc' = "comment"
               /\ lastIntro' = o.selected
               /\ writers' = [intros |-> IF o.history # weekSeedHistory.intros
                                          THEN Push(writers.intros, Running)
                                          ELSE writers.intros,
                              lastIntro |-> Some(Running)]
  /\ UNCHANGED <<input, error, calendar, locals, routeVars, pageVars, pickVars,
                 requests, slotsLeft, lengthModes, commentMode, together, cleanVars,
                 callVars, trackVars>>

\* generateHybridComment as generateWeeklyCalendar calls it, and the step to
\* the next slot or to the response
GenerateHybridComment ==
  /\ pc = "comment"
  /\ \E microReaction \in BOOLEAN :
       IF microReaction
       THEN commentMode' = None
       ELSE \E m \in commentLengthModes(PostLengthPassed(Some(lengthModes[Len(lengthModes)]))) :
               commentMode' = m
  /\ slotsLeft' = slotsLeft - 1
  /\ IF slotsLeft = 1
     THEN /\ pc' = "loop"
          /\ requests' = [requests EXCEPT ![Running] = "answered"]
     ELSE /\ pc' = "post"
          /\ requests' = requests
  /\ UNCHANGED <<input, error, calendar, locals, routeVars, pageVars, weekSeedHistory,
                 lastIntro, pickVars, lengthModes, writers, together, cleanVars, callVars, trackVars>>

BuildInit ==
  /\ input = NoCall
  /\ pc = "loop"
  /\ body = None
  /\ Fresh
  /\ NoCalls
  /\ NoPage
  /\ NoText

BuildNext ==
  \/ \E r \in 1..MaxRequests : Receive(r) \/ Reject(r) \/ StartBuild(r)
  \/ PickLengthMode
  \/ PickIntro
  \/ GenerateHybridComment

BuildSpec == BuildInit /\ [][BuildNext]_vars

\* ------------------------------------------------- the cleanup pipeline
\* A text is a sequence of symbols: words, the blank and the period.  The
\* words are those of the drafts below, of the pronouns of
\* replaceTopicRepetition and of the variants of replaceGenericFillers.  A
\* pass is modelled by the replacements that can match a text over these
\* words; the other replacements of the pass need a word or a mark that no
\* such text has ('improving', 'burnout', 'is', 'seems', a comma, a dash, ...).
\* humanSmooth, rewriteDualThemes and fixImprovingMyPhrases have no
\* replacement that can match, and simplifyTopic comes down to its trim.

\* the words that start with a lower-case letter, and their capitalized forms
CapitalPairs ==
  { <<"sleep", "Sleep">>, <<"helps", "Helps">>, <<"this", "This">>, <<"these", "These">>,
    <<"challenges", "Challenges">>, <<"issue", "Issue">>, <<"what", "What">>, <<"dealing", "Dealing">>,
    <<"with", "With">>, <<"part", "Part">>, <<"of", "Of">>, <<"it", "It">>,
    <<"whole", "Whole">>, <<"thing", "Thing">>, <<"that", "That">>, <<"challenge", "Challenge">>,
    <<"working", "Working">>, <<"on", "On">>, <<"my", "My">>, <<"routine", "Routine">>,
    <<"the", "The">>, <<"habit", "Habit">>, <<"building", "Building">>, <<"trips", "Trips">>,
    <<"me", "Me">>, <<"up", "Up">>, <<"goal", "Goal">>, <<"area", "Area">>,
    <<"trying", "Trying">>, <<"to", "To">>, <<"improve", "Improve">>, <<"same", "Same">>,
    <<"here", "Here">>, <<"totally", "Totally">>, <<"relate", "Relate">>, <<"honestly", "Honestly">>,
    <<"too", "Too">>, <<"oh", "Oh">>, <<"wow", "Wow">>, <<"hit", "Hit">>,
    <<"hard", "Hard">>, <<"been", "Been">>, <<"myself", "Myself">>, <<"following", "Following">>,
    <<"needed", "Needed">>, <<"hear", "Hear">>, <<"today", "Today">>, <<"is", "Is">>,
    <<"boat", "Boat">>, <<"for", "For">>, <<"more", "More">>, <<"ideas", "Ideas">>,
    <<"would", "Would">>, <<"love", "Love">>, <<"viewpoints", "Viewpoints">>, <<"hits", "Hits">>,
    <<"home", "Home">>, <<"not", "Not">>, <<"gonna", "Gonna">>, <<"lie", "Lie">>,
    <<"real", "Real">>, <<"talk", "Talk">>, <<"one", "One">>, <<"be", "Be">>,
    <<"lowkey", "Lowkey">>, <<"struggling", "Struggling">>, <<"okay", "Okay">>, <<"but", "But">>,
    <<"actually", "Actually">>, <<"hey", "Hey">>, <<"everyone", "Everyone">>, <<"quick", "Quick">>,
    <<"question", "Question">>, <<"true", "True">>, <<"story", "Story">>, <<"thought", "Thought">>,
    <<"hot", "Hot">>, <<"take", "Take">>, <<"using", "Using">>, <<"tools", "Tools">>,
    <<"automate", "Automate">>, <<"small", "Small">>, <<"decisions", "Decisions">>, <<"really", "Really">>,
    <<"helped", "Helped">>, <<"tracking", "Tracking">>, <<"progress", "Progress">>, <<"in", "In">>,
    <<"a", "A">>, <<"simple", "Simple">>, <<"way", "Way">>, <<"stay", "Stay">>,
    <<"consistent", "Consistent">>, <<"breaking", "Breaking">>, <<"things", "Things">>, <<"into", "Into">>,
    <<"daily", "Daily">>, <<"focus", "Focus">>, <<"points", "Points">>, <<"made", "Made">>,
    <<"difference", "Difference">>, <<"simplify", "Simplify">>, <<"process", "Process">>, <<"smart", "Smart">>,
    <<"task", "Task">>, <<"prioritization", "Prioritization">> }

\* charAt(0).toUpperCase() + slice(1) of a word
Capitalize(w) ==
  IF \E p \in CapitalPairs : p[1] = w THEN (CHOOSE p \in CapitalPairs : p[1] = w)[2] ELSE w

\* toLowerCase of a word, as the 'i' flag of a regular expression compares
toLowerCase(w) ==
  IF \E p \in CapitalPairs : p[2] = w THEN (CHOOSE p \in CapitalPairs : p[2] = w)[1] ELSE w

LowerCase(s) == [k \in 1..Len(s) |-> toLowerCase(s[k])]

\* ("--" stands for the em dash)
\* a run of \w characters: a word without an apostrophe (the runs of 'I'm'
\* are 'I' and 'm', which are no words of a text)
IsPlainWord(c) == c \notin {" ", ".", ",", "--", "I'm"}

\* .replace(/<pat>/gi, rep) for a literal pattern of whole words
ReplaceAll[s \in Str, pat \in Str, rep \in Str] ==
  IF Len(s) < Len(pat) THEN s
  ELSE IF LowerCase(SubSeq(s, 1, Len(pat))) = pat
       THEN rep \o ReplaceAll[Drop(s, Len(pat)), pat, rep]
       ELSE <<Head(s)>> \o ReplaceAll[Tail(s), pat, rep]

\* the symbols that n words and the blanks between them take at the start
\* of s, 0 when s does not start with them: (?:\w+\s+){n-1}\w+
PhraseLen[s \in Str, n \in Nat] ==
  IF s = <<>> \/ ~IsPlainWord(Head(s)) THEN 0
  ELSE IF n = 1 THEN 1
  ELSE LET k == LeadingSpaces[Tail(s)]
           more == PhraseLen[Drop(s, 1 + k), n - 1]
       IN IF k = 0 \/ more = 0 THEN 0 ELSE 1 + k + more

\* .replace(/\b((?:\w+\s+){n-1}\w+)\s+\1\b/gi, '$1')
RemoveRepeatedPhrases[s \in Str, n \in Nat] ==
  IF s = <<>> THEN <<>>
  ELSE LET p == PhraseLen[s, n]
           after == Drop(s, p)
           k == LeadingSpaces[after]
       IN IF /\ p > 0
             /\ k > 0
             /\ Len(after) >= k + p
             /\ LowerCase(SubSeq(after, k + 1, k + p)) = LowerCase(SubSeq(s, 1, p))
             /\ (Len(after) = k + p \/ ~IsPlainWord(after[k + p + 1]))
          THEN SubSeq(s, 1, p) \o RemoveRepeatedPhrases[Drop(after, k + p), n]
          ELSE <<Head(s)>> \o RemoveRepeatedPhrases[Tail(s), n]

\* .replace(/(^|\.\s+|!\s+|\?\s+)([a-z])/g, ...): the first letter of the
\* text and of what follows a period and blanks is made upper case
CapitalizeSentences[s \in Str, atStart \in BOOLEAN] ==
  IF s = <<>> THEN <<>>
  ELSE IF atStart
       THEN <<Capitalize(Head(s))>> \o CapitalizeSentences[Tail(s), FALSE]
       ELSE LET k == LeadingSpaces[Tail(s)]
            IN IF Head(s) = "." /\ k > 0
               THEN <<".">> \o SubSeq(Tail(s), 1, k) \o CapitalizeSentences[Drop(s, 1 + k), TRUE]
               ELSE <<Head(s)>> \o CapitalizeSentences[Tail(s), FALSE]

\* .replace(/\.{2,}/g, '.')
CollapsePeriods[s \in Str] ==
  IF Len(s) < 2 THEN s
  ELSE IF s[1] = "." /\ s[2] = "." THEN CollapsePeriods[Tail(s)]
       ELSE <<Head(s)>> \o CollapsePeriods[Tail(s)]

\* .replace(/^\s*\.\s*/g, ''): a period that opens the text goes, with the
\* blanks around it
DropLeadingPeriod(s) ==
  LET k == LeadingSpaces[s]
  IN IF Len(s) > k /\ s[k + 1] = "."
     THEN Drop(s, k + 1 + LeadingSpaces[Drop(s, k + 1)])
     ELSE s

\* .replace(/\s+\.\s+/g, '. '): a period between blanks
FloatingPeriods[s \in Str] ==
  IF s = <<>> THEN <<>>
  ELSE LET k == LeadingSpaces[s]
           j == IF Len(s) > k THEN LeadingSpaces[Drop(s, k + 1)] ELSE 0
       IN IF k > 0 /\ Len(s) > k /\ s[k + 1] = "." /\ j > 0
          THEN <<".", " ">> \o FloatingPeriods[Drop(s, k + 1 + j)]
          ELSE <<Head(s)>> \o FloatingPeriods[Tail(s)]

\* .replace(/\s+([.,!?;:])/g, '$1'): no blank before a punctuation mark
SpacesBeforePunctuation[s \in Str] ==
  IF s = <<>> THEN <<>>
  ELSE LET k == LeadingSpaces[s]
       IN IF k > 0 /\ Len(s) > k /\ s[k + 1] \in {".", ","}
          THEN <<s[k + 1]>> \o SpacesBeforePunctuation[Drop(s, k + 1)]
          ELSE <<Head(s)>> \o SpacesBeforePunctuation[Tail(s)]

\* .replace(/\.\s+\./g, '.'): period, blanks, period
PeriodSpacePeriod[s \in Str] ==
  IF s = <<>> THEN <<>>
  ELSE LET k == LeadingSpaces[Tail(s)]
       IN IF Head(s) = "." /\ k > 0 /\ Len(s) > k + 1 /\ s[k + 2] = "."
          THEN <<".">> \o PeriodSpacePeriod[Drop(s, k + 2)]
          ELSE <<Head(s)>> \o PeriodSpacePeriod[Tail(s)]

\* .replace(/([.,!?;:])([^\s])/g, '$1 $2'): a blank after a punctuation mark
\* that something else than a blank follows
SpaceAfterPunctuation[s \in Str] ==
  IF Len(s) < 2 THEN s
  ELSE IF Head(s) \in {".", ","} /\ s[2] # " "
       THEN <<s[1], " ", s[2]>> \o SpaceAfterPunctuation[Drop(s, 2)]
       ELSE <<Head(s)>> \o SpaceAfterPunctuation[Tail(s)]

\* .replace(/([.!?])\s*([a-z])/g, '$1 $2'): one blank between a period and
\* the lower-case letter after it
SentenceSpacing[s \in Str] ==
  IF s = <<>> THEN <<>>
  ELSE LET k == LeadingSpaces[Tail(s)]
       IN IF Head(s) = "." /\ Len(s) > k + 1 /\ Capitalize(s[k + 2]) # s[k + 2]
          THEN <<".", " ", s[k + 2]>> \o SentenceSpacing[Drop(s, k + 2)]
          ELSE <<Head(s)>> \o SentenceSpacing[Tail(s)]

\* .replace(/([.,!?;:])\s*/g, '$1 '): one blank after every punctuation mark
OneSpaceAfterPunctuation[s \in Str] ==
  IF s = <<>> THEN <<>>
  ELSE IF Head(s) \in {".", ","}
       THEN <<Head(s), " ">> \o OneSpaceAfterPunctuation[Drop(s, 1 + LeadingSpaces[Tail(s)])]
       ELSE <<Head(s)>> \o OneSpaceAfterPunctuation[Tail(s)]

ThisPartOfIt == Words[<<"this", "part", "of", "it">>]

\* the variants of replaceGenericFillers
FillerVariants ==
  { <<"this">>, Words[<<"this", "issue">>], Words[<<"this", "challenge">>],
    Words[<<"what", "I'm", "working", "on">>], Words[<<"my", "routine">>],
    Words[<<"the", "habit", "I'm", "building">>],
    Words[<<"the", "part", "that", "trips", "me", "up">>], Words[<<"this", "goal">>],
    Words[<<"what", "I'm", "dealing", "with">>],
    Words[<<"this", "area", "I'm", "trying", "to", "improve">>] }

\* the texts text.replace(/this part of it/gi, () => pick(variants)) can give
replaceGenericFillers[s \in Str] ==
  IF Len(s) < Len(ThisPartOfIt) THEN {s}
  ELSE IF LowerCase(SubSeq(s, 1, Len(ThisPartOfIt))) = ThisPartOfIt
       THEN {v \o r : v \in FillerVariants, r \in replaceGenericFillers[Drop(s, Len(ThisPartOfIt))]}
       ELSE {<<Head(s)>> \o r : r \in replaceGenericFillers[Tail(s)]}

removeFillerPhrases(text) == replaceGenericFillers[text]

\* the pronouns of replaceTopicRepetition
Pronouns ==
  { <<"this">>, Words[<<"these", "challenges">>], Words[<<"this", "issue">>],
    Words[<<"what", "I'm", "dealing", "with">>], ThisPartOfIt,
    Words[<<"this", "whole", "thing">>], <<"that">>, <<"these">> }

\* the matches of the topic pattern in s
TopicMatches[s \in Str, phrase \in Str] ==
  IF Len(s) < Len(phrase) THEN 0
  ELSE IF LowerCase(SubSeq(s, 1, Len(phrase))) = LowerCase(phrase)
       THEN 1 + TopicMatches[Drop(s, Len(phrase)), phrase]
       ELSE TopicMatches[Tail(s), phrase]

\* every match but the first is replaced by a pronoun picked for it
ReplaceLaterMatches[s \in Str, phrase \in Str, first \in BOOLEAN] ==
  IF Len(s) < Len(phrase) THEN {s}
  ELSE IF LowerCase(SubSeq(s, 1, Len(phrase))) = LowerCase(phrase)
       THEN IF first
            THEN {SubSeq(s, 1, Len(phrase)) \o r :
                    r \in ReplaceLaterMatches[Drop(s, Len(phrase)), phrase, FALSE]}
            ELSE {p \o r : p \in Pronouns,
                    r \in ReplaceLaterMatches[Drop(s, Len(phrase)), phrase, FALSE]}
       ELSE {<<Head(s)>> \o r : r \in ReplaceLaterMatches[Tail(s), phrase, first]}

\* the texts replaceTopicRepetition(text, topic) can give, the topic being
\* words joined by single blanks
replaceTopicRepetition(text, phrase) ==
  IF text = <<>> \/ phrase = <<>> THEN {text}
  ELSE IF TopicMatches[text, phrase] < 2 THEN {text}
  ELSE ReplaceLaterMatches[text, phrase, TRUE]

\* polishGrammar: the determiner fixes, the floating periods, the runs of
\* periods, the blanks before punctuation, the repeated words, the closing
\* period, the capitals, the blanks, 'that that' and 'it it', the blanks
\* around punctuation
polishGrammar(text) ==
  IF text = <<>> THEN <<>>
  ELSE LET determiners ==
             ReplaceAll[ReplaceAll[ReplaceAll[text,
                 Words[<<"this", "these">>], <<"these">>],
                 Words[<<"that", "this">>], <<"that">>],
                 Words[<<"this", "this">>], <<"this">>]
           floating == FloatingPeriods[DropLeadingPeriod(determiners)]
           punctuated ==
             PeriodSpacePeriod[SpacesBeforePunctuation[CollapsePeriods[floating]]]
           unrepeated == RemoveRepeatedPhrases[punctuated, 1]
           ended == IF Trim[unrepeated] # <<>> /\ Trim[unrepeated][Len(Trim[unrepeated])] = "."
                    THEN unrepeated
                    ELSE Trim[unrepeated] \o <<".">>
           capitalized == Trim[CollapseSpaces[CapitalizeSentences[ended, TRUE]]]
           fixed == ReplaceAll[ReplaceAll[capitalized,
                        Words[<<"that", "that">>], <<"that">>],
                        Words[<<"it", "it">>], <<"it">>]
       IN Trim[SentenceSpacing[SpaceAfterPunctuation[SpacesBeforePunctuation[fixed]]]]

\* smoothText: the blanks, the blanks around punctuation, the repeated words
\* and phrases, the runs of periods, the first capital
smoothText(str) ==
  IF str = <<>> THEN <<>>
  ELSE LET collapsed == CollapseSpaces[Trim[str]]
           spaced ==
             Trim[CollapseSpaces[OneSpaceAfterPunctuation[SpacesBeforePunctuation[collapsed]]]]
           words == RemoveRepeatedPhrases[spaced, 1]
           phrases ==
             RemoveRepeatedPhrases[RemoveRepeatedPhrases[RemoveRepeatedPhrases[
               RemoveRepeatedPhrases[RemoveRepeatedPhrases[words, 5], 4], 3], 2], 1]
           capital == IF phrases = <<>> THEN <<>>
                      ELSE <<Capitalize(Head(phrases))>> \o Tail(phrases)
       IN Trim[CollapseSpaces[CollapsePeriods[capital]]]

\* the texts the cleanup pipeline of generateHybridPost can give for a
\* result and the topicSimple of the post: simplifyTopic, rewriteDualThemes,
\* fixImprovingMyPhrases, removeFillerPhrases, replaceTopicRepetition,
\* polishGrammar, humanSmooth, smoothText
CleanupPipeline(result, topicSimple) ==
  UNION {{smoothText(polishGrammar(r)) : r \in replaceTopicRepetition(f, topicSimple)} :
           f \in removeFillerPhrases(Trim[result])}

\* the topic of the post and the pieces a draft is put together from
TopicSimple == <<"sleep">>
Items == {TopicSimple, <<"helps">>, ThisPartOfIt}

\* pieces joined by single blanks
Join[pieces \in Seq(Str)] ==
  IF pieces = <<>> THEN <<>>
  ELSE IF Len(pieces) = 1 THEN Head(pieces)
  ELSE Head(pieces) \o <<" ">> \o Join[Tail(pieces)]

Drafts == UNION {{Join[f] : f \in [1..k -> Items]} : k \in 1..MaxItems}

\* the pipeline runs on a draft
Cleanup ==
  /\ pc = "draft"
  /\ \E c \in CleanupPipeline(draft, TopicSimple) : cleaned' = Some(c)
  /\ pc' = "cleaned"
  /\ UNCHANGED <<input, error, calendar, locals, routeVars, pageVars, weekSeedHistory,
                 lastIntro, pickVars, buildVars, draft, recleaned, textVars, callVars, trackVars>>

\* the pipeline runs on its own output
CleanupAgain ==
  /\ pc = "cleaned"
  /\ \E c \in CleanupPipeline(cleaned[1], TopicSimple) : recleaned' = Some(c)
  /\ pc' = "recleaned"
  /\ UNCHANGED <<input, error, calendar, locals, routeVars, pageVars, weekSeedHistory,
                 lastIntro, pickVars, buildVars, draft, cleaned, textVars, callVars, trackVars>>

CleanInit ==
  /\ input = NoCall
  /\ pc = "draft"
  /\ body = None
  /\ Fresh
  /\ NoCalls
  /\ NoPage
  /\ weekSeedHistory = [intros |-> <<>>, lastLengthMode |-> None]
  /\ lastIntro = ""
  /\ arr = <<>>
  /\ selected = None
  /\ pickError = None
  /\ before = <<>>
  /\ requests = [r \in 1..MaxRequests |-> "none"]
  /\ slotsLeft = 0
  /\ lengthModes = <<>>
  /\ commentMode = None
  /\ writers = [intros |-> <<>>, lastIntro |-> None]
  /\ together = {}
  /\ draft \in Drafts
  /\ cleaned = None
  /\ recleaned = None
  /\ valueProp = <<>>
  /\ postText = None
  /\ commentText = None

CleanNext == Cleanup \/ CleanupAgain

CleanSpec == CleanInit /\ [][CleanNext]_vars

\* ------------------------------------------------- the texts of a slot
\* the micro-reactions of generateHybridComment
noIntroComments ==
  { <<"Same", " ", "here", ".">>,
    <<"Totally", " ", "relate", ".">>,
    <<"Honestly", ",", " ", "me", " ", "too", ".">>,
    <<"Oh", " ", "wow", ",", " ", "this", " ", "hit", " ", "hard", ".">>,
    <<"Been", " ", "dealing", " ", "with", " ", "this", " ", "myself", ".">>,
    <<"Following", " ", "this", ".">>,
    <<"Needed", " ", "to", " ", "hear", " ", "this", " ", "today", ".">> }

\* the ultra-short comments that replace a comment under eight words
ultraShortComments ==
  { <<"Same", ".">>,
    <<"Totally", " ", "relate", ".">>,
    <<"Oh", " ", "wow", ",", " ", "this", " ", "is", " ", "me", ".">>,
    <<"Following", ".">>,
    <<"Needed", " ", "to", " ", "hear", " ", "this", ".">>,
    <<"Honestly", " ", "--", " ", "same", " ", "boat", ".">> }

\* the enhancers appended to a comment under eight words
enhancers ==
  { <<"Same", " ", "here", ".">>,
    <<"Been", " ", "dealing", " ", "with", " ", "this", " ", "too", ".">>,
    <<"Following", " ", "for", " ", "more", " ", "ideas", ".">>,
    <<"Would", " ", "love", " ", "to", " ", "hear", " ", "more", " ", "viewpoints", ".">>,
    <<"Honestly", ",", " ", "this", " ", "hits", " ", "home", ".">> }

\* the intros of a short post
shortIntroSeeds ==
  { <<"Not", " ", "gonna", " ", "lie", " ", "--">>,
    <<"Real", " ", "talk", " ", "--">>,
    <<"Same", " ", "here", " ", "--">>,
    <<"This", " ", "one", " ", "hits", " ", "hard", " ", "--">>,
    <<"Honestly", " ", "--">>,
    <<"Gonna", " ", "be", " ", "real", " ", "--">>,
    <<"Lowkey", " ", "struggling", " ", "with", " ", "this", " ", "--">>,
    <<"Okay", " ", "but", " ", "actually", " ", "--">>,
    <<"Hey", " ", "everyone", " ", "--">>,
    <<"Quick", " ", "question", " ", "--">> }

\* the intros of a comment of twelve words or more (the persona's tone
\* prefix, the eighth option, is left out)
commentIntroOptions ==
  { <<"Real", " ", "talk", " ", "--">>,
    <<"Honestly", " ", "--">>,
    <<"Not", " ", "gonna", " ", "lie", " ", "--">>,
    <<"Lowkey", " ", "--">>,
    <<"True", " ", "story", " ", "--">>,
    <<"Quick", " ", "thought", " ", "--">>,
    <<"Hot", " ", "take", " ", "--">> }

\* vp.includes(word) for a value proposition of whole words
Includes(vp, word) == \E k \in 1..Len(vp) : toLowerCase(vp[k]) = word

\* text.toLowerCase().includes(phrase.toLowerCase()) for a phrase of whole words
IncludesPhrase(text, phrase) ==
  \E k \in 1..(Len(text) - Len(phrase) + 1) :
    LowerCase(SubSeq(text, k, k + Len(phrase) - 1)) = LowerCase(phrase)

\* the advice of the company-mention branch: a fixed sentence chosen by the
\* words of the value proposition
naturalAdvice(vp) ==
  IF \/ Includes(vp, "tasks")
     \/ IncludesPhrase(vp, Words[<<"smart", "prioritization">>])
     \/ Includes(vp, "prioritization")
  THEN <<"Using", " ", "tools", " ", "that", " ", "automate", " ", "small", " ", "decisions", " ", "really", " ", "helped", " ", "me", ".">>
  ELSE IF Includes(vp, "progress") \/ Includes(vp, "track")
  THEN <<"Tracking", " ", "my", " ", "progress", " ", "in", " ", "a", " ", "simple", " ", "way", " ", "helped", " ", "me", " ", "stay", " ", "consistent", ".">>
  ELSE IF Includes(vp, "focus") \/ Includes(vp, "suggestions")
  THEN <<"Breaking", " ", "things", " ", "into", " ", "simple", " ", "daily", " ", "focus", " ", "points", " ", "made", " ", "a", " ", "difference", ".">>
  ELSE <<"Using", " ", "tools", " ", "that", " ", "simplify", " ", "the", " ", "process", " ", "really", " ", "helped", " ", "me", ".">>

\* result.replace(new RegExp(escaped valueProp, 'gi'), '') under if (company.valueProp)
StripValueProp(result, vp) ==
  IF vp = <<>> THEN result ELSE ReplaceAll[result, LowerCase(vp), <<>>]

\* text.split(/(?<=[.!?])\s+/)
SplitSentences[s \in Str] ==
  IF \E k \in 1..(Len(s) - 1) : s[k] = "." /\ s[k + 1] = " "
  THEN LET k == CHOOSE k \in 1..(Len(s) - 1) :
                  /\ s[k] = "." /\ s[k + 1] = " "
                  /\ \A j \in 1..(k - 1) : ~(s[j] = "." /\ s[j + 1] = " ")
           rest == Drop(s, k)
       IN <<SubSeq(s, 1, k)>> \o SplitSentences[Drop(rest, LeadingSpaces[rest])]
  ELSE <<s>>

\* the parts that are not blank and differ from the part kept before them
DropRepeated[parts \in Seq(Str), last \in Str] ==
  IF parts = <<>> THEN <<>>
  ELSE LET trimmed == Trim[Head(parts)]
       IN IF trimmed # <<>> /\ LowerCase(trimmed) # LowerCase(last)
          THEN <<trimmed>> \o DropRepeated[Tail(parts), trimmed]
          ELSE DropRepeated[Tail(parts), last]

removeDuplicateSentences(text) ==
  IF Trim[text] = <<>> THEN text ELSE Join[DropRepeated[SplitSentences[text], <<>>]]

\* result.trim().split(/\s+/).length
WordCount(result) ==
  LET t == Trim[result]
  IN IF t = <<>> THEN 1
     ELSE Cardinality({k \in 1..Len(t) : t[k] # " " /\ (k = 1 \/ t[k - 1] = " ")})

\* the cleanup pipeline of a short comment, which has no replaceTopicRepetition
ShortCommentPipeline(result) ==
  {smoothText(polishGrammar(f)) : f \in removeFillerPhrases(Trim[result])}

\* the result of applyPattern for a medium or long text: the seeds, and the
\* advice of the company-mention branch closed by the pattern's period, as
\* under '{intro} {struggle}. {advice}.'
Assembled(seeds, mention, vp) ==
  IF mention THEN seeds \o <<" ">> \o naturalAdvice(vp) \o <<".">> ELSE seeds

\* the tokens of the sentence templates
TokenNames == {"{intro}", "{reflection}", "{struggle}", "{advice}", "{closing}",
               "{shortReply}", "{affirmation}", "{humor}"}

\* applyPattern: every token of the pattern gives way to its text, and a
\* token without a text to nothing
RECURSIVE applyPattern(_, _)
applyPattern(pattern, tokens) ==
  IF pattern = <<>> THEN <<>>
  ELSE (IF Head(pattern) \in TokenNames
        THEN IF Head(pattern) \in DOMAIN tokens THEN tokens[Head(pattern)] ELSE <<>>
        ELSE <<Head(pattern)>>)
       \o applyPattern(Tail(pattern), tokens)

\* '{intro} {reflection}. {closing}', the first of the mediumPatterns
mediumPatterns ==
  <<"{intro}", " ", "{reflection}", ".", " ", "{closing}">>

\* '{intro} {reflection}. {advice}. {advice}. {closing}', the last of the
\* postPatterns
postPatterns ==
  <<"{intro}", " ", "{reflection}", ".", " ", "{advice}", ".", " ", "{advice}", ".",
    " ", "{closing}">>

\* the tokens of a medium or long post: the intro seed, a reflection seed
\* with the topic injected, the advice of the company-mention branch or an
\* advice seed, and a closing seed
PostTokens(seeds, mention, vp) ==
  [x \in {"{intro}", "{reflection}", "{advice}", "{closing}"} |->
     CASE x = "{intro}" -> seeds
       [] x = "{reflection}" -> TopicSimple \o <<" ", "helps">>
       [] x = "{advice}" -> IF mention THEN naturalAdvice(vp) ELSE <<"helps">>
       [] x = "{closing}" -> Words[<<"same", "here">>]]

\* the texts generateHybridPost can return
generateHybridPost(lengthMode, seeds, mention, vp) ==
  IF lengthMode = "short"
  THEN UNION {{removeDuplicateSentences(c) :
                 c \in CleanupPipeline(intro \o <<" ">> \o seeds, TopicSimple)} :
                intro \in shortIntroSeeds}
  ELSE LET pattern == IF lengthMode = "medium" THEN mediumPatterns ELSE postPatterns
           result == applyPattern(pattern, PostTokens(seeds, mention, vp))
       IN CleanupPipeline(StripValueProp(result, vp), TopicSimple)

\* the intro and the enhancement of a cleaned comment
Enhanced(result, useIntro) ==
  LET introduced == IF useIntro /\ WordCount(result) >= 12
                    THEN {intro \o <<" ">> \o result : intro \in commentIntroOptions}
                    ELSE {result}
  IN UNION {IF WordCount(r) < 8
            THEN ultraShortComments \cup {r \o <<" ">> \o e : e \in enhancers}
            ELSE {r} : r \in introduced}

\* the texts generateHybridComment can return
generateHybridComment(micro, lengthMode, seeds, mention, useIntro, vp) ==
  IF micro THEN noIntroComments
  ELSE LET stripped ==
             StripValueProp(IF lengthMode = "short" THEN seeds ELSE Assembled(seeds, mention, vp),
                            vp)
           piped == IF lengthMode = "short" THEN ShortCommentPipeline(stripped)
                    ELSE CleanupPipeline(stripped, TopicSimple)
       IN UNION {Enhanced(removeDuplicateSentences(c), useIntro) : c \in piped}

\* the value propositions of the companies: the one of the specification's
\* scenario, the topic of the post, and an everyday phrase
ValueProps ==
  { Words[<<"smart", "task", "prioritization">>], TopicSimple, Words[<<"same", "here">>] }

LengthModes == {"short", "medium", "long"}

\* one call of generateHybridPost for a slot
GenerateHybridPost ==
  /\ pc = "slot"
  /\ \E lengthMode \in LengthModes, seeds \in Drafts, mention \in BOOLEAN :
       /\ draft' = seeds
       /\ \E t \in generateHybridPost(lengthMode, seeds, mention, valueProp) :
            postText' = Some(t)
  /\ pc' = "text"
  /\ UNCHANGED <<input, error, calendar, locals, routeVars, pageVars, weekSeedHistory,
                 lastIntro, pickVars, buildVars, cleaned, recleaned, valueProp, commentText,
                 callVars, trackVars>>

\* one call of generateHybridComment for a slot
GenerateHybridCommentText ==
  /\ pc = "slot"
  /\ \E micro \in BOOLEAN, lengthMode \in LengthModes, seeds \in Drafts,
        mention \in BOOLEAN, useIntro \in BOOLEAN :
       /\ draft' = IF micro THEN <<>> ELSE seeds
       /\ \E t \in generateHybridComment(micro, lengthMode, seeds, mention, useIntro, valueProp) :
            commentText' = Some(t)
  /\ pc' = "text"
  /\ UNCHANGED <<input, error, calendar, locals, routeVars, pageVars, weekSeedHistory,
                 lastIntro, pickVars, buildVars, cleaned, recleaned, valueProp, postText,
                 callVars, trackVars>>

TextInit ==
  /\ input = NoCall
  /\ pc = "slot"
  /\ body = None
  /\ Fresh
  /\ NoCalls
  /\ NoPage
  /\ weekSeedHistory = [intros |-> <<>>, lastLengthMode |-> None]
  /\ lastIntro = ""
  /\ arr = <<>>
  /\ selected = None
  /\ pickError = None
  /\ before = <<>>
  /\ requests = [r \in 1..MaxRequests |-> "none"]
  /\ slotsLeft = 0
  /\ lengthModes = <<>>
  /\ commentMode = None
  /\ writers = [intros |-> <<>>, lastIntro |-> None]
  /\ together = {}
  /\ draft = <<>>
  /\ cleaned = None
  /\ recleaned = None
  /\ valueProp \in ValueProps
  /\ postText = None
  /\ commentText = None

TextNext == GenerateHybridPost \/ GenerateHybridCommentText

TextSpec == TextInit /\ [][TextNext]_vars

\* ------------------------------------------- single calls of the helpers
\* the community names a request can carry: route.ts asks of a name that it is
\* a string with s.trim() !== ''
NameSymbols == {"r", "/", " ", "tennis"}
Names ==
  {s \in UNION {[1..k -> NameSymbols] : k \in 1..MaxNameLen} : Trim[s] # <<>>}

\* normalizeSubreddit(sub)
Normalize ==
  /\ pc = "name"
  /\ label = None
  /\ label' = Some(normalizeSubreddit[sub])
  /\ UNCHANGED <<input, pc, error, calendar, locals, routeVars, pageVars, genVars, sub,
                 prefixedLabel, clock, monday, trackVars>>

\* normalizeSubreddit('r/' + sub)
NormalizePrefixed ==
  /\ pc = "name"
  /\ prefixedLabel = None
  /\ prefixedLabel' = Some(normalizeSubreddit[<<"r", "/">> \o sub])
  /\ UNCHANGED <<input, pc, error, calendar, locals, routeVars, pageVars, genVars, sub,
                 label, clock, monday, trackVars>>

NormInit ==
  /\ input = NoCall
  /\ pc = "name"
  /\ body = None
  /\ Fresh
  /\ NoPage
  /\ NoText
  /\ NoTrack
  /\ sub \in Names
  /\ label = None
  /\ prefixedLabel = None
  /\ clock = None
  /\ monday = None

NormNext == Normalize \/ NormalizePrefixed

NormSpec == NormInit /\ [][NormNext]_vars

\* the dates new Date() can give: every day of four months of a common year
\* and of a leap year, the turns of the year and the ends of February included
CurrentDates ==
  {MakeDate(y, m, d) : y \in Years, m \in {0, 1, 2, 11}, d \in 1..28}
    \cup {MakeDate(y, m, DaysInMonth(y, m)) : y \in Years, m \in {0, 1, 2, 11}}

\* getMondayOfWeek() on the current date
GetMondayOfWeek ==
  /\ pc = "clock"
  /\ monday' = Some(getMondayOfWeek(clock[1]))
  /\ pc' = "monday"
  /\ UNCHANGED <<input, error, calendar, locals, routeVars, pageVars, genVars, sub, label,
                 prefixedLabel, clock, trackVars>>

MondayInit ==
  /\ input = NoCall
  /\ pc = "clock"
  /\ body = None
  /\ Fresh
  /\ NoPage
  /\ NoText
  /\ NoTrack
  /\ sub = <<>>
  /\ label = None
  /\ prefixedLabel = None
  /\ \E d \in CurrentDates : clock = Some(d)
  /\ monday = None

MondayNext == GetMondayOfWeek

MondaySpec == MondayInit /\ [][MondayNext]_vars

\* ------------------------------------- the comments of consecutive slots
\* the seed texts of the comments of one build
TrackSeeds == {TopicSimple, <<"helps">>}

\* generateHybridComment for the next slot of a build.  The micro-reaction
\* returns before the tracker is read or written.  A short comment picks
\* its pattern again while the result is lastComment, ten times at most; a
\* medium or long comment has no such loop.  Both end on lastComment = result.
GenerateHybridCommentOfSlot ==
  /\ pc = "comments"
  /\ slotsLeft > 0
  /\ \E micro \in BOOLEAN, lengthMode \in LengthModes, seeds \in TrackSeeds,
        mention \in BOOLEAN, useIntro \in BOOLEAN, made \in {1, 10} :
       /\ (~micro /\ lengthMode = "short" /\ made < 10) => seeds # lastComment
       /\ draft' = IF micro THEN <<>> ELSE seeds
       /\ \E t \in generateHybridComment(micro, lengthMode, seeds, mention, useIntro, valueProp) :
            /\ commentText' = Some(t)
            /\ lastComment' = IF micro THEN lastComment ELSE t
  /\ previousComment' = commentText
  /\ slotsLeft' = slotsLeft - 1
  /\ UNCHANGED <<input, pc, error, calendar, locals, routeVars, pageVars, weekSeedHistory,
                 lastIntro, pickVars, requests, lengthModes, commentMode, writers, together,
                 cleaned, recleaned, valueProp, postText, callVars>>

TrackInit ==
  /\ input = NoCall
  /\ pc = "comments"
  /\ body = None
  /\ Fresh
  /\ NoCalls
  /\ NoPage
  /\ weekSeedHistory = [intros |-> <<>>, lastLengthMode |-> None]
  /\ lastIntro = ""
  /\ arr = <<>>
  /\ selected = None
  /\ pickError = None
  /\ before = <<>>
  /\ requests = [r \in 1..MaxRequests |-> "none"]
  /\ slotsLeft = MaxComments
  /\ lengthModes = <<>>
  /\ commentMode = None
  /\ writers = [intros |-> <<>>, lastIntro |-> None]
  /\ together = {}
  /\ draft = <<>>
  /\ cleaned = None
  /\ recleaned = None
  /\ valueProp = Words[<<"smart", "task", "prioritization">>]
  /\ postText = None
  /\ commentText = None

TrackNext == GenerateHybridCommentOfSlot

TrackSpec == TrackInit /\ [][TrackNext]_vars

\* ------------------------------------------------------------- claims
\* the input meets the three constraints of the call
ValidInput ==
  /\ Len(input.personas) >= 2
  /\ Len(input.subreddits) >= 1
  /\ Len(input.themes) >= 1

Slots == 1..Len(posts)

\* the distinct items of the expanded topic pool
TopicPool == {allTopics[k] : k \in 1..Len(allTopics)}

\* the date strings of the seven days of the week
WeekDates ==
  IF weekStart = None THEN <<>>
  ELSE [d \in 1..7 |-> formatDate(addDays(weekStart[1], d - 1))]

\* how many of the slots made so far carry the date string ds
SlotsDated(ds) == Cardinality({k \in Slots : posts[k].date = ds})

RawSubreddits == {input.subreddits[k] : k \in 1..Len(input.subreddits)}
SubredditLabels == {normalizeSubreddit[s] : s \in RawSubreddits}

\* C1: on an input that passes validation, every slot's commenter differs
\* from its poster.
C1_CommenterDiffersFromPoster ==
  ValidInput => \A k \in Slots : posts[k].commenter # posts[k].poster

\* C2: on an input that passes validation the call terminates and returns a
\* calendar.
C2_Terminates == (pc = "start" /\ ValidInput) ~> (pc = "done")

\* C3: the topics of the first min(postsPerWeek, number of distinct pool
\* items) slots are pairwise distinct.
C3_NoRepeatBeforePoolExhausted ==
  LET first == IF Len(posts) < Cardinality(TopicPool) THEN Len(posts)
               ELSE Cardinality(TopicPool)
  IN Cardinality({posts[k].topic : k \in 1..first}) = first

\* a build whose shuffled pool holds a repeated item ahead of an unused one,
\* and which has filled as many slots as the pool has distinct items
C3_Witness ==
  /\ Len(posts) >= Cardinality(TopicPool)
  /\ Cardinality(TopicPool) < Len(allTopics)
  /\ \E a, b \in 1..Len(shuffledTopics) :
        /\ a < b
        /\ b <= Cardinality(TopicPool)
        /\ shuffledTopics[a] = shuffledTopics[b]

ContinuationTopics ==
  {Render[cleanTopic[input.themes[t]]] \o " - part " \o ToString(n) :
     t \in 1..Len(input.themes), n \in 2..(MaxPosts + 3)}

TopicsBefore(k) == {posts[j].topic : j \in 1..(k - 1)}

\* C4: once every item of the pool has been assigned, every later slot gets a
\* continuation topic '<cleaned raw theme> - part N', and none gets a plain
\* pool topic that an earlier slot already has.
C4_ContinuationAfterExhaustion ==
  \A k \in Slots :
     (allTopics # <<>> /\ TopicPool \subseteq TopicsBefore(k)) =>
        /\ posts[k].topic \in ContinuationTopics
        /\ posts[k].topic \notin (TopicPool \cap TopicsBefore(k))

C6_NoSharedLabelOnAFittingDay ==
  LET dates == WeekDates
      distinct == Cardinality(RawSubreddits)
  IN \A d \in 1..Len(dates) :
        SlotsDated(dates[d]) <= distinct =>
           \A j, k \in Slots :
              (j < k /\ posts[j].date = dates[d] /\ posts[k].date = dates[d])
                 => posts[j].subreddit # posts[k].subreddit

C8_ExactlyPostsPerWeek ==
  /\ Len(posts) <= input.postsPerWeek
  /\ calendar # None => Len(calendar[1].posts) = input.postsPerWeek

C8_Witness ==
  /\ calendar # None
  /\ input.postsPerWeek = MaxPosts
  /\ Len(calendar[1].posts) = MaxPosts

\* the calendar days that can follow date within a week: the next six days of
\* its month and the first six of the following month
DaysFrom(date) ==
  LET nextY == IF date.m = 11 THEN date.y + 1 ELSE date.y
      nextM == IF date.m = 11 THEN 0 ELSE date.m + 1
      last == IF date.d + 6 < DaysInMonth(date.y, date.m) THEN date.d + 6
              ELSE DaysInMonth(date.y, date.m)
  IN {[y |-> date.y, m |-> date.m, d |-> dd] : dd \in date.d..last}
     \cup {[y |-> nextY, m |-> nextM, d |-> dd] : dd \in 1..6}

\* C9: every slot's date lies in [weekStart, weekStart + 6 days].
C9_DatesWithinTheWeek ==
  posts # <<>> =>
     LET first == DayNumber(weekStart[1])
         inWeek == {formatDate(day) :
                      day \in {c \in DaysFrom(weekStart[1]) : DayNumber(c) - first \in 0..6}}
     IN \A k \in Slots : posts[k].date \in inWeek

\* a week that starts on 24 February of a leap year and ends in March
C9_Witness ==
  /\ pc = "done"
  /\ weekStartStr = "2024-02-24"
  /\ Len(posts) = 7
  /\ posts[6].date = "2024-02-29"
  /\ posts[7].date = "2024-03-01"

\* C10: with fewer than 2 personas, no community or no theme, the call raises
\* an error whose message names a violated constraint, before any topic,
\* community or persona selection and before any text generation.
C10_ValidationBeforeScheduling ==
  (pc # "start" /\ ~ValidInput) =>
     /\ pc = "error"
     /\ error # None
     /\ error = Some("At least 2 personas are required") => Len(input.personas) < 2
     /\ error = Some("At least 1 subreddit is required") => Len(input.subreddits) = 0
     /\ error = Some("At least 1 theme is required") => Len(input.themes) = 0
     /\ error \in {Some("At least 2 personas are required"),
                   Some("At least 1 subreddit is required"),
                   Some("At least 1 theme is required")}
     /\ posts = <<>> /\ calendar = None /\ usedTopics = {}
     /\ topicIndex = 0 /\ subredditIndex = 0 /\ personaIndex = 0
     /\ shuffledTopics = <<>> /\ lastSubreddit = None /\ textCalls = 0

C10_Witness ==
  /\ pc = "error"
  /\ error = Some("At least 1 theme is required")
  /\ Len(input.personas) >= 2
  /\ posts = <<>>

\* ----------------------------------------------------------- claim C11
\* the date string has the form YYYY-MM-DD and names a day of the calendar
WellFormedDate(dateStr) ==
  /\ Len(dateStr) = 3
  /\ dateStr[2] \in 1..12
  /\ dateStr[3] \in 1..DaysInMonth(dateStr[1], dateStr[2] - 1)

\* every field of the body is as the input schema has it
WellFormedBody(b) ==
  /\ b # None
  /\ b[1].company # None
  /\ \A f \in {"name", "valueProp", "idealCustomer", "tone"} : Trim[b[1].company[1][f]] # <<>>
  /\ b[1].personas # None
  /\ Len(b[1].personas[1]) >= 2
  /\ \A k \in 1..Len(b[1].personas[1]) :
        LET p == b[1].personas[1][k]
        IN /\ \A f \in {"name", "background", "voice"} : Trim[p[f]] # <<>>
           /\ \A j \in 1..Len(p.painPoints) : Trim[p.painPoints[j]] # <<>>
  /\ b[1].subreddits # None
  /\ Len(b[1].subreddits[1]) >= 1
  /\ \A k \in 1..Len(b[1].subreddits[1]) : Trim[b[1].subreddits[1][k]] # <<>>
  /\ b[1].themes # None
  /\ Len(b[1].themes[1]) >= 1
  /\ \A k \in 1..Len(b[1].themes[1]) : Trim[b[1].themes[1][k]] # <<>>
  /\ b[1].postsPerWeek # None
  /\ b[1].postsPerWeek[1] >= 1
  /\ b[1].weekStart # None => WellFormedDate(b[1].weekStart[1])

\* C11: POST calls generateWeeklyCalendar only for a body whose every field is
\* well-formed (the optional weekStart date string included); a malformed
\* body is answered with status 400 and never reaches the core.
C11_CoreCalledOnlyWellFormed ==
  /\ input # NoCall => WellFormedBody(body)
  /\ (pc = "responded" /\ ~WellFormedBody(body)) =>
        response[1].status = 400 /\ input = NoCall

\* ----------------------------------------------------------- claim C12
\* C12: the next week generated from a stored calendar whose weekStart is D
\* has weekStart D plus 7 days, in every time zone of the client.
C12_NextWeekStartsSevenDaysLater ==
  shown # None =>
     \E day \in DaysFrom(MakeDate(loaded[1][1], loaded[1][2] - 1, loaded[1][3] + 1)) :
        /\ DayNumber(day) = DayNumber(parseDate(loaded[1])) + 7
        /\ shown[1].weekStart = formatDate(day)

\* ----------------------------------------------------------- claim C16
Range(f) == {f[k] : k \in DOMAIN f}

\* C16: the picker returns a member of the candidate list it is given; when
\* some candidate is not among the last 2 entries of the history the value
\* returned is not among them, and when every candidate is among them a
\* candidate is returned and nothing is thrown.
C16_PickerReturnsAdmissibleCandidate ==
  arr # <<>> =>
     /\ pickError = None
     /\ selected # None
     /\ selected[1] \in Range(arr)
     /\ (Range(arr) \ Range(LastTwo(before)) # {} => selected[1] \notin Range(LastTwo(before)))

\* a call on the whole library that had two entries to avoid
C16_Witness ==
  /\ Len(before) >= 2
  /\ Len(arr) = LibrarySize
  /\ selected # None
  /\ selected[1] \notin Range(LastTwo(before))

\* a call whose candidates were all among the last two entries
C16_WitnessDropped ==
  /\ Len(before) >= 2
  /\ Len(arr) = 2
  /\ Range(arr) = Range(LastTwo(before))
  /\ selected # None

\* ----------------------------------------------------------- claim C17
\* the last n entries of a sequence
LastN(seq, n) == SubSeq(seq, IF Len(seq) > n THEN Len(seq) - n + 1 ELSE 1, Len(seq))

\* C17: since the last reset the history is the sequence of the most recent
\* min(10, number of picks) values the picker returned, in pick order: it is
\* empty before the first pick, every value returned (also from a
\* single-element list or with the last-2 constraint dropped) becomes the
\* newest entry of the history the call was given, and the history never
\* holds more than 10 entries.
C17_HistoryIsTheLastTenReturned ==
  /\ (arr = <<>> /\ pickError = None) => weekSeedHistory.intros = <<>>
  /\ selected # None =>
        weekSeedHistory.intros = LastN(Append(before, selected[1]), HistoryCap)
  /\ Len(weekSeedHistory.intros) <= HistoryCap

\* ----------------------------------------------------------- claim C13
\* C13: at the start of every build all anti-repetition memory is empty, so
\* nothing an earlier build chose constrains the first picks of the new build.
C13_MemoryEmptyAtBuildStart ==
  (pc = "post" /\ lengthModes = <<>>) =>
     /\ weekSeedHistory = resetWeekHistory
     /\ lastIntro = ""

\* ----------------------------------------------------------- claim C14
\* C14: with several requests in flight, at most one build runs between its
\* reset and its last pick, and the memory it reads there (the intros history
\* and lastIntro) holds no entry produced by the build of a request that was
\* in flight together with its own.
C14_ConcurrentBuildsShareNoMemory ==
  /\ Cardinality({r \in 1..MaxRequests : requests[r] = "building"}) <= 1
  /\ \A r \in 1..MaxRequests :
        (requests[r] = "building" /\ pc = "intro") =>
           /\ \A k \in 1..Len(writers.intros) : writers.intros[k] = r
           /\ lastIntro # "" => <<writers.lastIntro[1], r>> \notin together

\* ----------------------------------------------------------- claim C18
\* C18: within one build the length modes of two consecutive posts are never
\* both 'short'.
C18_NoTwoShortPostsInARow ==
  Len(lengthModes) = 2 => ~(lengthModes[1] = "short" /\ lengthModes[2] = "short")

\* a post that follows a short post of the same build
C18_Witness ==
  /\ Len(lengthModes) = 2
  /\ lengthModes[1] = "short"
  /\ lengthModes[2] \in {"medium", "long"}

\* ----------------------------------------------------------- claim C19
\* the comment length modes the post's length mode allows
AllowedCommentModes(postLength) ==
  IF postLength = "short" THEN {"short"} ELSE {"short", "medium"}

\* C19: the comment's length mode is drawn from the distribution of its
\* post's length mode: short or medium under a long or a medium post, short
\* under a short post.
C19_CommentLengthFollowsPostLength ==
  commentMode # None =>
     commentMode[1] \in AllowedCommentModes(lengthModes[Len(lengthModes)])

\* ----------------------------------------------------------- claim C20
\* C20: the cleanup pipeline is idempotent: whatever the random replacement
\* choices, running it on its own output leaves the text unchanged.
C20_CleanupIsIdempotent ==
  recleaned # None => recleaned = cleaned

\* ----------------------------------------------------------- claim C15
\* C15: for a non-empty company.valueProp, no postText and no commentText
\* contains the value proposition verbatim, compared without regard to case,
\* on any path of post and comment assembly.
C15_ValuePropNeverQuoted ==
  valueProp # <<>> =>
    /\ postText # None => ~IncludesPhrase(postText[1], valueProp)
    /\ commentText # None => ~IncludesPhrase(commentText[1], valueProp)

\* ----------------------------------------------------------- claim C21
\* C21: for every community name that does not itself start with 'r/',
\* normalizeSubreddit(s) and normalizeSubreddit('r/' + s) both equal 'r/' + s.
C21_NormalizationIsPrefixInsensitive ==
  ~StartsWith(sub, <<"r", "/">>) =>
     /\ label # None => label[1] = Render[<<"r", "/">> \o sub]
     /\ prefixedLabel # None => prefixedLabel[1] = Render[<<"r", "/">> \o sub]

SlotsPerDay == [d \in 1..7 |-> SlotsDated(WeekDates[d])]

\* C23: every day's postsToday is ceil(remainingPosts / remainingDays); in
\* the finished week the seven counts are non-increasing, differ by at most
\* one slot and sum to postsPerWeek.
C23_GreedyCeilingDistribution ==
  /\ pc \in {"topic", "subreddit"} =>
        postsToday = Ceil(input.postsPerWeek - (Len(posts) - i), 7 - dayOffset)
  /\ pc \in {"return", "done"} =>
        /\ \A d \in 1..6 : SlotsPerDay[d] >= SlotsPerDay[d + 1]
        /\ SlotsPerDay[1] - SlotsPerDay[7] <= 1
        /\ Cardinality({k \in Slots : \E d \in 1..7 : posts[k].date = WeekDates[d]})
              = input.postsPerWeek

\* a finished week of ten slots: three days of two and four days of one
C23_Witness ==
  /\ pc = "done"
  /\ input.postsPerWeek = 10
  /\ SlotsPerDay = <<2, 2, 2, 1, 1, 1, 1>>

\* ----------------------------------------------------------- claim C24
\* the retry budget of the subreddit do/while
RetryBudget == 3 * Len(input.subreddits)

\* the communities are pairwise distinct strings, at least two, and no day of
\* the week holds more slots than there are communities
FittingWeek ==
  /\ Len(input.subreddits) >= 2
  /\ Cardinality(RawSubreddits) = Len(input.subreddits)
  /\ Ceil(input.postsPerWeek, 7) <= Len(input.subreddits)

\* the communities used on the day of the slot made last
DayOfLastSlot == usedSubredditsPerDay[IF i = 0 THEN dayOffset ELSE dayOffset + 1]

\* C24 (as claimed): the retry budget of 3 x (pool size) attempts is exhausted
\* for a slot only when the pool has exactly one entry, for every positive
\* postsPerWeek.
C24_BudgetExhaustedOnlyForOneCommunity ==
  (posts # <<>> /\ attempts >= RetryBudget) => Len(input.subreddits) = 1

\* C24 (amended): the budget is exhausted for a slot only when every
\* community of the pool is used on the slot's day or is the preceding slot's
\* community; with at least 2 pairwise distinct communities and no day holding
\* more slots than there are communities it is never exhausted.
C24_BudgetExhaustedOnlyWhenAllBlocked ==
  posts # <<>> =>
     /\ attempts <= RetryBudget
     /\ attempts >= RetryBudget => RawSubreddits \subseteq DayOfLastSlot
     /\ FittingWeek => attempts < RetryBudget

\* a finished week of fifteen slots over three distinct communities
C24_Witness ==
  /\ pc = "done"
  /\ FittingWeek
  /\ Len(posts) = MaxPosts
  /\ attempts >= 1

\* ----------------------------------------------------------- claim C25
\* at least two communities, pairwise distinct (their labels are)
DistinctCommunities ==
  /\ Len(input.subreddits) >= 2
  /\ Cardinality(SubredditLabels) = Len(input.subreddits)

\* C25: with at least 2 pairwise distinct communities and no day holding more
\* slots than there are communities, any two consecutive slots of the
\* calendar, the last of a day and the first of the next day included, are
\* assigned different communities.
C25_ConsecutiveSlotsDiffer ==
  (DistinctCommunities /\ FittingWeek) =>
     \A k \in 1..(Len(posts) - 1) : posts[k].subreddit # posts[k + 1].subreddit

\* a finished week over two communities whose first day has two slots: the
\* second slot of the first day and the slot of the second day are consecutive
C25_Witness ==
  /\ pc = "done"
  /\ DistinctCommunities
  /\ Len(input.subreddits) = 2
  /\ Len(posts) = 8
  /\ posts[2].date # posts[3].date

\* ----------------------------------------------------------- claim C26
\* the slots given to the community with label l
SlotsOf(l) == Cardinality({k \in Slots : posts[k].subreddit = l})

\* C26: with at least 2 pairwise distinct communities and no day holding more
\* slots than there are communities, the k-th slot receives the community at
\* position (k-1) mod n of the shuffled rotation, no candidate is skipped, and
\* the slot counts of any two communities differ by at most 1.
C26_CommunitiesRotateEvenly ==
  (FittingWeek /\ shuffledSubreddits # <<>>) =>
     /\ \A k \in Slots :
           posts[k].subreddit =
             normalizeSubreddit[shuffledSubreddits[((k - 1) % Len(shuffledSubreddits)) + 1]]
     /\ subredditIndex = Len(posts)
     /\ DistinctCommunities => \A a, b \in SubredditLabels : SlotsOf(a) - SlotsOf(b) <= 1

\* a finished week of seven slots over two communities: counts 4 and 3
C26_Witness ==
  /\ pc = "done"
  /\ DistinctCommunities
  /\ FittingWeek
  /\ Len(posts) = 7
  /\ subredditIndex = 7
  /\ \E a, b \in SubredditLabels : SlotsOf(a) = 4 /\ SlotsOf(b) = 3

\* ----------------------------------------------------------- claim C30
\* C30: whenever the subreddit do/while of a slot uses up its budget of
\* 3 x (pool size) attempts, the candidate it accepts is the community of the
\* immediately preceding slot, and the rotation index has advanced by a
\* multiple of the pool size.
C30_ExhaustionRepeatsThePrecedingCommunity ==
  [][(Len(posts') = Len(posts) + 1 /\ attempts' >= RetryBudget) =>
       /\ lastSubreddit # None
       /\ lastSubreddit' = lastSubreddit
       /\ (subredditIndex' - subredditIndex) % Len(input.subreddits) = 0]_vars

\* a slot whose do/while used up the budget over a pool of three
C30_Witness ==
  /\ posts # <<>>
  /\ Len(input.subreddits) = 3
  /\ attempts = RetryBudget


\* C28: no returned postText or commentText contains the filler phrase
\* 'this part of it', whichever pass put it there
C28_NoFillerPhraseReturned ==
  /\ postText # None => ~IncludesPhrase(postText[1], ThisPartOfIt)
  /\ commentText # None => ~IncludesPhrase(commentText[1], ThisPartOfIt)


\* ----------------------------------------------------------- claim C27
\* the sentences of a returned text
Sentences(text) == SplitSentences[text]

\* a sentence immediately followed by a copy of itself, compared without
\* regard to case
HasRepeatedSentence(text) ==
  \E k \in 1..(Len(Sentences(text)) - 1) :
    LowerCase(Trim[Sentences(text)[k]]) = LowerCase(Trim[Sentences(text)[k + 1]])

\* C27: no returned postText or commentText contains a sentence immediately
\* followed by a case-insensitive copy of itself, whichever sentence template
\* was chosen.
C27_NoRepeatedSentenceReturned ==
  /\ postText # None => ~HasRepeatedSentence(postText[1])
  /\ commentText # None => ~HasRepeatedSentence(commentText[1])


\* ----------------------------------------------------------- claim C29
\* C29: within one build, the comments of two consecutive slots are never the
\* identical string, on every comment path (micro-reaction, short, medium,
\* long).
C29_ConsecutiveCommentsDiffer ==
  (previousComment # None /\ commentText # None) => commentText[1] # previousComment[1]
====
